---- MODULE Spec2Model ----
(***************************************************************************)
(* nosman (Nodos package manager).                                         *)
(*                                                                         *)
(* Spec: one behaviour is one run of PublishCommand::run_publish: the      *)
(* initial state is the world the process starts in (the package on disk,  *)
(* the remote's index and hosted releases, the library search state of     *)
(* the process), and the actions are the steps of run_publish in program   *)
(* order.                                                                  *)
(* MainSpec: nosman processes, one after another, on the same directories: *)
(* main's dispatch over commands(), the workspace marker, init.            *)
(* ResolverSpec: the version resolver of install and info, applied to a    *)
(* request.                                                                *)
(* AskSpec, CompareSpec, ExtractSpec: one call of common.rs ask,           *)
(* check_file_contents_same and download_and_extract.                      *)
(*                                                                         *)
(* Strings are sequences of characters (a character is a one-token         *)
(* string); in a path the separator "/" is a token of its own. Option<T>   *)
(* is a sequence of length at most one.                                    *)
(***************************************************************************)
EXTENDS Integers, Sequences, FiniteSets, TLC

\* ------------------------------------------------------------------ Option
NoneV == << >>
Some(v) == << v >>
IsSome(o) == o # << >>
IsNone(o) == o = << >>
Unwrap(o) == o[1]

\* ------------------------------------------------------------------ bounds
\* The longest additional_search_paths array of a manifest.
MaxSearchPaths == 1
\* The most dependencies a manifest declares.
MaxDeps == 1

\* ------------------------------------------------------------------ strings
AsciiLowercase == {"a", "c", "r", "v"}
AsciiDigit == {"0", "1", "2", "3", "4", "5", "7"}
\* char::is_numeric is the Unicode property (Nd, Nl, No): "sup2" stands for
\* U+00B2 SUPERSCRIPT TWO, numeric and not an ASCII digit.
UnicodeNumeric == AsciiDigit \cup {"sup2"}

IsNameChar(c) == c = "." \/ c = "_" \/ c \in UnicodeNumeric \/ c \in AsciiLowercase

\* PublishCommand::is_name_valid: chars().all(..), true of the empty name.
is_name_valid(name) == \A i \in 1..Len(name) : IsNameChar(name[i])

\* The character class [a-z0-9._] the error message of run_publish names.
InNameClass(c) == c = "." \/ c = "_" \/ c \in AsciiDigit \/ c \in AsciiLowercase

RECURSIVE SplitDots(_, _)
\* str::split('.'): the components of s, cur being the component read so far.
SplitDots(s, cur) ==
    IF s = << >> THEN << cur >>
    ELSE IF Head(s) = "." THEN << cur >> \o SplitDots(Tail(s), << >>)
    ELSE SplitDots(Tail(s), Append(cur, Head(s)))

IsUInt(comp) == comp # << >> /\ \A i \in 1..Len(comp) : comp[i] \in AsciiDigit

\* SemVer::parse_from_string: major[.minor[.patch[.build]]], every component a
\* non-negative integer; None otherwise.
SemVerParse(s) ==
    LET parts == SplitDots(s, << >>)
    IN  IF Len(parts) >= 1 /\ Len(parts) <= 4 /\ \A i \in 1..Len(parts) : IsUInt(parts[i])
        THEN Some(parts) ELSE NoneV

\* ------------------------------------------------------------------ platform
HostOS == {"linux", "macos", "windows"}
Arch == "x86_64"

\* get_host_platform
get_host_platform(os) == [os |-> os, arch |-> Arch]

\* Platform's Display: "os-arch".
PlatformToString(p) == << p.os, "-", p.arch >>

\* Platform::from_str
PlatformFromStr(s) ==
    IF Len(s) = 3 /\ s[1] \in HostOS /\ s[2] = "-" /\ s[3] = Arch
    THEN Some([os |-> s[1], arch |-> s[3]]) ELSE NoneV

\* ------------------------------------------------------------------ inputs
Str_a7 == << "a", "_", "7" >>
\* Names a manifest (or the caller) may carry: a valid one, the empty one, one
\* with an upper-case letter, one with a non-ASCII numeric character.
NameInputs == { Str_a7, << >>, << "A" >>, << "a", "sup2" >> }
Str_200 == << "2", ".", "0", ".", "0" >>
VersionInputs == { Str_200, << "v", "1" >> }
\* --version-suffix: its default "", a pre-release suffix, a build component.
Str_rc1 == << "-", "r", "c", "1" >>
SuffixInputs == { << >>, Str_rc1, << ".", "4" >> }
\* --target-platform, when given.
TargetPlatformInputs == { << "windows", "-", Arch >>, << "bogus" >> }
\* --name/--version/--type of the caller, read only when no manifest overrides them.
CallerInputs ==
    { [name |-> n, version |-> v, type |-> t] :
        n \in { NoneV, Some(Str_a7) },
        v \in { NoneV, Some(Str_200) },
        t \in { NoneV, Some("Engine") } }

\* ------------------------------------------------------------------ the package on disk
PluginManifestPath == << "mod.noscfg" >>
SubsystemManifestPath == << "mod.nossys" >>
OptionsPath == << ".nospub" >>
BinaryFilePath == << "bin", "mod.so" >>
BinaryRelPath == << "bin", "mod" >>

\* A path is a string whose separators are the tokens "/".
IsAbsolute(path) == path # << >> /\ path[1] = "/"

\* PathBuf::push: an absolute path replaces the buffer; otherwise the path is
\* appended as a component, after a separator unless the buffer is empty or
\* ends with one.
PathPush(buf, path) ==
    IF IsAbsolute(path) THEN path
    ELSE IF buf # << >> /\ buf[Len(buf)] # "/" THEN buf \o << "/" >> \o path
    ELSE buf \o path

\* The canonical path of the package directory (module_dir), and the root of
\* the workspace whose installed modules the dependencies are looked up in.
ModuleDir == << "/", "pkg" >>
WorkspaceRoot == << "/", "ws" >>

\* i-th entry of a manifest's additional_search_paths.
OwnPath(i) == << "libs", ToString(i) >>
\* i-th declared dependency.
Dep(i) == [name |-> << "dep", ToString(i) >>, version |-> << "1", ".", "0" >>]
\* The additional_search_paths entry "lib" of the installed manifest of
\* dependency d, joined onto the directory of that manifest.
DepPath(d) == PathPush(PathPush(WorkspaceRoot, d.name), << "lib" >>)

\* A module manifest (JSON): info.id.name, info.id.version, info.dependencies,
\* binary_path, additional_search_paths. A manifest without binary_path
\* declares no search paths.
Manifests ==
    { [name |-> n, version |-> v, binary_path |-> b,
       additional_search_paths |-> [i \in 1..k |-> OwnPath(i)],
       dependencies |-> [i \in 1..d |-> Dep(i)]] :
        n \in NameInputs, v \in VersionInputs, b \in { Some(BinaryRelPath) },
        k \in 0..MaxSearchPaths, d \in 0..MaxDeps }
    \cup
    { [name |-> n, version |-> v, binary_path |-> NoneV,
       additional_search_paths |-> << >>,
       dependencies |-> [i \in 1..d |-> Dep(i)]] :
        n \in NameInputs, v \in VersionInputs, d \in 0..MaxDeps }

\* The publish options file (.nospub), when the directory has one.
OptionFiles ==
    { [release_globs |-> << << "**" >> >>, target_platforms |-> NoneV],
      [release_globs |-> << << "**" >> >>,
       target_platforms |-> Some({ << "linux", "-", Arch >> })],
      [release_globs |-> << << "bin", "**" >> >>, target_platforms |-> NoneV] }

\* What get_plugin_manifest_file / get_subsystem_manifest_file find: no such
\* manifest, one, or an error of the lookup.
Lookups == { "none", "some", "err" }

\* The path given to publish: nothing there, a single file, or a package
\* directory. The manifest's contents are modelled when the directory holds
\* exactly one manifest that both lookups find (the only case in which it is read).
Disks ==
    { [kind |-> "missing", options |-> NoneV, plugin |-> "none", subsystem |-> "none",
       manifest |-> NoneV],
      [kind |-> "file", options |-> NoneV, plugin |-> "none", subsystem |-> "none",
       manifest |-> NoneV] }
    \cup
    { [kind |-> "dir", options |-> o, plugin |-> ps[1], subsystem |-> ps[2],
       manifest |-> NoneV] :
        o \in { NoneV } \cup { Some(f) : f \in OptionFiles },
        ps \in (Lookups \X Lookups) \ { << "some", "none" >>, << "none", "some" >> } }
    \cup
    { [kind |-> "dir", options |-> o, plugin |-> ps[1], subsystem |-> ps[2],
       manifest |-> Some(m)] :
        o \in { NoneV } \cup { Some(f) : f \in OptionFiles },
        ps \in { << "some", "none" >>, << "none", "some" >> },
        m \in Manifests }

\* The files under a package directory, as paths relative to it.
FilesOf(d) ==
    (IF d.plugin # "none" THEN { PluginManifestPath } ELSE { })
    \cup (IF d.subsystem # "none" THEN { SubsystemManifestPath } ELSE { })
    \cup (IF IsSome(d.options) THEN { OptionsPath } ELSE { })
    \cup { BinaryFilePath }

\* The contents of a file of the directory: the manifest's JSON value, or bytes
\* that publish never interprets.
ContentOf(d, path) ==
    IF IsSome(d.manifest) /\ path \in { PluginManifestPath, SubsystemManifestPath }
    THEN [json |-> TRUE, value |-> d.manifest, bytes |-> << >>]
    ELSE [json |-> FALSE, value |-> NoneV, bytes |-> path]

RECURSIVE GlobMatch(_, _)
\* globwalk patterns: "**" matches any number of path components, any other
\* component matches itself.
GlobMatch(g, p) ==
    IF g = << >> THEN p = << >>
    ELSE IF Head(g) = "**"
         THEN GlobMatch(Tail(g), p) \/ (p # << >> /\ GlobMatch(g, Tail(p)))
         ELSE p # << >> /\ Head(g) = Head(p) /\ GlobMatch(Tail(g), Tail(p))

\* ------------------------------------------------------------------ results
Running == [status |-> "running", variant |-> "", msg |-> ""]
Ok(b) == [status |-> "Ok", variant |-> b, msg |-> ""]
Err(variant, msg) == [status |-> "Err", variant |-> variant, msg |-> msg]
\* expect / unwrap on a failure: the thread panics, nothing is returned.
Panic(msg) == [status |-> "panic", variant |-> "", msg |-> msg]

\* ------------------------------------------------------------------ the remote
RemoteUrl == << "https://remote" >>
Join3(a, b, c) == a \o << "-" >> \o b \o << "-" >> \o c

\* A release the index holds before this run: a_7 2.0.0 for linux.
SeedRelease ==
    [version |-> Str_200,
     url |-> RemoteUrl \o << "/releases/download/" >>
             \o Join3(Str_a7, Str_200, << "linux", "-", Arch >>) \o << "/", "old.tar.gz" >>,
     plugin_api_version |-> NoneV, subsystem_api_version |-> NoneV,
     dependencies |-> NoneV, platform |-> Some(<< "linux", "-", Arch >>),
     min_required_api_minor_version |-> NoneV]
SeedIndex == { [name |-> Str_a7, release |-> SeedRelease, commit |-> 1] }
SeedReleases ==
    { [tag |-> Join3(Str_a7, Str_200, << "linux", "-", Arch >>), commit |-> 1,
       files |-> { << "old.tar.gz" >> }] }

\* ------------------------------------------------------------------ state
VARIABLES
    \* the world
    host_os,            \* the OS nosman was built for and runs on
    disk,               \* the path given to publish
    env,                \* process environment: the library search variables
    dll_dirs,           \* Windows: the directories added with AddDllDirectory
    index,              \* the remote's catalog of release entries
    releases,           \* the remote's hosted releases
    head,               \* the revision of the remote's catalog
    tmp,                \* the files under the system's temporary directory
    \* run_publish: arguments and locals
    pc, dry_run, target_platform, nospub, manifest_file, package_type,
    name, version, version_suffix, dependencies, additional_search_paths,
    api_version, min_required_minor_opt,
    tag, artifact_file_path, archive, release, commit_sha, result,
    \* load_module_with_search_paths: locals
    original_var, dll_cookies, lib_dir_i, res,
    \* history
    pre,                \* the world when run_publish started
    env_at_load,        \* the library search state when Library::new ran
    caller_args,        \* --name, --version and --type, once run_publish read them
    dep_found,          \* which declared dependencies were found installed
    sym_found,          \* whether a symbol lookup of the probe succeeded
    fetch_add_calls,    \* the arguments of every fetch_add call
    create_gh_release_calls,  \* the arguments of every create_gh_release call
    run_if_not_calls    \* every run_if_not call and what it did

world == << host_os, disk, env, dll_dirs, index, releases, head, tmp >>
remote == << index, releases, head >>
ident == << name, version, version_suffix, package_type, dependencies >>
probe == << additional_search_paths, api_version, min_required_minor_opt >>
pkg == << tag, artifact_file_path, archive, release, commit_sha >>
locals == << dry_run, target_platform, nospub, manifest_file, ident, probe, pkg >>
loader == << original_var, dll_cookies, lib_dir_i, res >>
history == << pre, caller_args, env_at_load, dep_found, sym_found, fetch_add_calls,
              create_gh_release_calls, run_if_not_calls >>
publish == << world, locals, loader, history, pc, result >>

\* ------------------------------------------------------------------ state of main
\* The nosman process and the directories its --workspace may name.
VARIABLES
    fs,                 \* directory -> the install registry under its .nosman marker, if any
    m_pc,               \* where main is
    matches,            \* what the argument parser returned
    current_root,       \* nosman::workspace::current_root
    command_i,          \* the loop of main over commands()
    run_result,         \* what the command's run returned
    exit_status,        \* the status the process exited with
    stderr,             \* the lines print_error and main wrote to stderr
    \* history
    ran,                \* the commands whose run was invoked by this process
    fs_at_start,        \* fs when the process started
    initialised         \* the directories an init made a workspace (and no deinit undid)

\* ------------------------------------------------------------------ state of the resolver
VARIABLES
    request,            \* a version request of install / info, with the candidates
    resolution          \* what the resolver returned for it

resolver == << request, resolution >>

\* ------------------------------------------------------------------ state of common.rs
\* ask: a call of ask reading the lines of standard input.
VARIABLES
    ask_pc,             \* where ask is
    default,            \* the answer the prompt shows as the default
    do_default,         \* what ask returns for an empty answer
    answer,             \* the String the lines are read into
    stdin,              \* the lines of standard input not read yet
    ask_result,         \* what ask returned
    \* history
    ask_input,          \* standard input when ask was called
    lines_read          \* how many lines ask has read

asking == << ask_pc, default, do_default, answer, stdin, ask_result, ask_input, lines_read >>

\* check_file_contents_same: a call comparing two files.
VARIABLES
    cmp_pc,             \* where check_file_contents_same is
    file1, file2,       \* the bytes of the two files
    pos1, pos2,         \* the read positions of the two open files
    buf1, buf2,         \* the two buffers
    cmp_result          \* what the function returned

comparing == << cmp_pc, file1, file2, pos1, pos2, buf1, buf2, cmp_result >>

\* download_and_extract: a call extracting a downloaded archive.
VARIABLES
    ex_pc,              \* where download_and_extract is
    ex_archive,         \* the entry names of the downloaded archive
    ex_i,               \* the loop over the entries
    tree,               \* the file system: the paths that exist, and their kind
    ex_result,          \* what the function returned
    \* history
    tree_at_start,      \* the file system when the function was called
    touched             \* the paths the function created or wrote

extracting == << ex_pc, ex_archive, ex_i, tree, ex_result, tree_at_start, touched >>
common == << asking, comparing, extracting >>

process == << m_pc, matches, current_root, command_i, run_result, exit_status, stderr,
             ran, fs_at_start >>
sys == << fs, process, initialised, resolver, common >>
vars == << publish, sys >>

\* The library search variable of the host: LD_LIBRARY_PATH on linux,
\* DYLD_LIBRARY_PATH on macos.
SearchVar(os) == IF os = "macos" THEN "DYLD_LIBRARY_PATH" ELSE "LD_LIBRARY_PATH"
EnvVars == { "LD_LIBRARY_PATH", "DYLD_LIBRARY_PATH" }

\* The value the search variable may have when nosman starts.
OptLib == << "/", "opt", "/", "lib" >>

\* PublishOptions::empty
EmptyOptions == [release_globs |-> << >>, target_platforms |-> NoneV]

World ==
    [disk |-> disk, env |-> env, dll_dirs |-> dll_dirs, index |-> index,
     releases |-> releases, head |-> head, tmp |-> tmp]

\* The locals of run_publish before its first statement, and empty histories.
PublishLocalsInit ==
    /\ target_platform = NoneV
    /\ nospub = EmptyOptions
    /\ manifest_file = NoneV
    /\ package_type = NoneV
    /\ name = NoneV
    /\ version = NoneV
    /\ version_suffix = NoneV
    /\ dependencies = NoneV
    /\ additional_search_paths = << >>
    /\ api_version = NoneV
    /\ min_required_minor_opt = NoneV
    /\ tag = << >>
    /\ artifact_file_path = NoneV
    /\ archive = NoneV
    /\ release = NoneV
    /\ commit_sha = NoneV
    /\ result = Running
    /\ original_var = NoneV
    /\ dll_cookies = << >>
    /\ lib_dir_i = 0
    /\ res = "none"
    /\ caller_args = NoneV
    /\ env_at_load = NoneV
    /\ dep_found = << >>
    /\ sym_found = << >>
    /\ fetch_add_calls = << >>
    /\ create_gh_release_calls = << >>
    /\ run_if_not_calls = << >>

\* The directories --workspace may name: a directory, one below it, and one
\* below that.
Dirs == { << "w" >>, << "w", "a" >>, << "w", "a", "b" >> }
\* A path that names no directory.
MissingDir == << "w", "x" >>

\* No nosman process (main) is part of the behaviour.
MainIdle ==
    /\ fs = [d \in Dirs |-> NoneV]
    /\ m_pc = "idle"
    /\ matches = NoneV
    /\ current_root = NoneV
    /\ command_i = 0
    /\ run_result = NoneV
    /\ exit_status = NoneV
    /\ stderr = << >>
    /\ ran = << >>
    /\ fs_at_start = fs
    /\ initialised = { }

\* No version request is part of the behaviour.
ResolverIdle ==
    /\ request = NoneV
    /\ resolution = NoneV

\* No call of ask is part of the behaviour.
AskIdle ==
    /\ ask_pc = "idle"
    /\ default = FALSE
    /\ do_default = FALSE
    /\ answer = << >>
    /\ stdin = << >>
    /\ ask_result = NoneV
    /\ ask_input = << >>
    /\ lines_read = 0

\* No call of check_file_contents_same is part of the behaviour.
CompareIdle ==
    /\ cmp_pc = "idle"
    /\ file1 = << >>
    /\ file2 = << >>
    /\ pos1 = 0
    /\ pos2 = 0
    /\ buf1 = << >>
    /\ buf2 = << >>
    /\ cmp_result = NoneV

\* No call of download_and_extract is part of the behaviour.
ExtractIdle ==
    /\ ex_pc = "idle"
    /\ ex_archive = << >>
    /\ ex_i = 0
    /\ tree = { }
    /\ ex_result = Running
    /\ tree_at_start = { }
    /\ touched = { }

CommonIdle == AskIdle /\ CompareIdle /\ ExtractIdle

Init ==
    /\ host_os \in HostOS
    /\ disk \in Disks
    /\ env \in { e \in [EnvVars -> { NoneV, Some(OptLib) }] :
                   \A v \in EnvVars :
                       (host_os = "windows" \/ v # SearchVar(host_os)) => e[v] = NoneV }
    /\ dll_dirs = { }
    /\ \/ index = { } /\ releases = { } /\ head = 0
       \/ index = SeedIndex /\ releases = SeedReleases /\ head = 1
    /\ tmp = { }
    /\ pc = "start"
    /\ dry_run \in BOOLEAN
    /\ PublishLocalsInit
    /\ pre = World
    /\ MainIdle
    /\ ResolverIdle
    /\ CommonIdle

\* ------------------------------------------------------------------ run_publish
\* return: the function's locals are dropped; a TempDir created by the run is
\* removed with everything in it.
Return(r) ==
    /\ pc' = "done"
    /\ result' = r
    /\ tmp' = { }

\* Lines 179-192: git and gh must be on PATH.
CheckTools ==
    /\ pc = "start"
    /\ \E git_installed \in BOOLEAN, gh_installed \in BOOLEAN :
        IF ~git_installed
        THEN Return(Err("GenericError", "git is not on PATH"))
        ELSE IF ~gh_installed
        THEN Return(Err("GenericError", "gh is not on PATH"))
        ELSE pc' = "resolve_platform" /\ UNCHANGED << result, tmp >>
    /\ UNCHANGED << sys, host_os, disk, env, dll_dirs, remote, locals, loader, history >>

\* Lines 195-201: the target platform is the caller's, or the host's.
ResolvePlatform ==
    /\ pc = "resolve_platform"
    /\ \E opt_target_platform \in { NoneV } \cup { Some(t) : t \in TargetPlatformInputs } :
        IF IsNone(opt_target_platform)
        THEN /\ target_platform' = Some(get_host_platform(host_os))
             /\ pc' = "check_path"
             /\ UNCHANGED << result, tmp >>
        ELSE IF IsNone(PlatformFromStr(Unwrap(opt_target_platform)))
        THEN Return(Panic("Invalid target platform")) /\ UNCHANGED target_platform
        ELSE /\ target_platform' = PlatformFromStr(Unwrap(opt_target_platform))
             /\ pc' = "check_path"
             /\ UNCHANGED << result, tmp >>
    /\ UNCHANGED << sys, host_os, disk, env, dll_dirs, remote, dry_run, nospub, manifest_file,
                    ident, probe, pkg, loader, history >>

\* Lines 203-220: the path must exist; only a directory is searched for options
\* and manifests.
CheckPath ==
    /\ pc = "check_path"
    /\ IF disk.kind = "missing"
       THEN Return(Err("InvalidArgumentError", "Path does not exist"))
       ELSE /\ pc' = IF disk.kind = "dir" THEN "load_options" ELSE "resolve_identity"
            /\ UNCHANGED << result, tmp >>
    /\ UNCHANGED << sys, host_os, disk, env, dll_dirs, remote, locals, loader, history >>

\* PublishOptions::from_file: the file's contents, or "every file" without one.
from_file(d) ==
    IF IsSome(d.options)
    THEN [options |-> Unwrap(d.options), found |-> TRUE]
    ELSE [options |-> [release_globs |-> << << "**" >> >>, target_platforms |-> NoneV],
          found |-> FALSE]

ExcludedByOptionsIgnored(opts, found, platform) == FALSE

\* Lines 225-226: the options name target platforms, and not this one.
ExcludedByOptions(opts, found, platform) ==
    /\ found
    /\ IsSome(opts.target_platforms)
    /\ PlatformToString(platform) \notin Unwrap(opts.target_platforms)

\* Lines 221-230: load the publish options; a target platform they exclude
\* ends the publish with Ok(false).
LoadOptions ==
    /\ pc = "load_options"
    /\ LET r == from_file(disk) IN
        /\ nospub' = r.options
        /\ IF ExcludedByOptions(r.options, r.found, Unwrap(target_platform))
           THEN Return(Ok("false"))
           ELSE pc' = "find_manifest" /\ UNCHANGED << result, tmp >>
    /\ UNCHANGED << sys, host_os, disk, env, dll_dirs, remote, dry_run, target_platform,
                    manifest_file, ident, probe, pkg, loader, history >>

BothManifestsIgnored(plugin, subsystem) == FALSE

\* Line 242: a plugin manifest and a subsystem manifest were both found.
BothManifests(plugin, subsystem) == plugin = "some" /\ subsystem = "some"

\* Lines 232-252: look for the plugin and the subsystem manifest; the one found
\* decides the package type.
FindManifest ==
    /\ pc = "find_manifest"
    /\ IF disk.plugin = "err"
       THEN Return(Err("InvalidArgumentError", "plugin manifest lookup"))
            /\ UNCHANGED << manifest_file, package_type >>
       ELSE IF disk.subsystem = "err"
       THEN Return(Err("InvalidArgumentError", "subsystem manifest lookup"))
            /\ UNCHANGED << manifest_file, package_type >>
       ELSE IF BothManifests(disk.plugin, disk.subsystem)
       THEN Return(Err("InvalidArgumentError", "Multiple module manifest files found"))
            /\ UNCHANGED << manifest_file, package_type >>
       ELSE /\ package_type' = IF disk.plugin = "some" THEN Some("Plugin")
                               ELSE IF disk.subsystem = "some" THEN Some("Subsystem")
                               ELSE package_type
            /\ manifest_file' = IF disk.plugin = "some" THEN Some(PluginManifestPath)
                                ELSE IF disk.subsystem = "some"
                                THEN Some(SubsystemManifestPath)
                                ELSE NoneV
            /\ pc' = IF disk.plugin = "some" \/ disk.subsystem = "some"
                     THEN "read_manifest" ELSE "resolve_identity"
            /\ UNCHANGED << result, tmp >>
    /\ UNCHANGED << sys, host_os, disk, env, dll_dirs, remote, dry_run, target_platform, nospub,
                    name, version, version_suffix, dependencies, probe, pkg, loader,
                    history >>

\* Lines 253-273: the manifest gives the name, the version and the
\* dependencies (None when the manifest has no info.dependencies array).
ReadManifest ==
    /\ pc = "read_manifest"
    /\ LET manifest == Unwrap(disk.manifest) IN
        /\ name' = Some(manifest.name)
        /\ version' = Some(manifest.version)
        /\ dependencies' = IF manifest.dependencies = << >> THEN NoneV
                           ELSE Some(manifest.dependencies)
        /\ pc' = IF IsSome(manifest.binary_path) THEN "collect_search_paths"
                 ELSE "resolve_identity"
    /\ UNCHANGED << sys, world, dry_run, target_platform, nospub, manifest_file, package_type,
                    version_suffix, probe, pkg, loader, history, result >>

\* Lines 277-281: the binary's file name by the target OS.
BinaryExtension(os) ==
    IF os = "windows" THEN "dll" ELSE IF os = "macos" THEN "dylib" ELSE "so"

\* Lines 282-303: the manifest's own search paths joined onto module_dir, then those of every
\* dependency that get_latest_installed_module_for_version finds; a dependency
\* it does not find adds nothing. Workspace::get()? may fail.
SearchPathsOf(manifest, found) ==
    LET deps == manifest.dependencies
        DepPaths[i \in 0..Len(deps)] ==
            IF i = 0 THEN << >>
            ELSE DepPaths[i - 1] \o (IF found[i] THEN << DepPath(deps[i]) >> ELSE << >>)
        own == manifest.additional_search_paths
    IN  [i \in 1..Len(own) |-> PathPush(ModuleDir, own[i])] \o DepPaths[Len(deps)]

CollectSearchPaths ==
    /\ pc = "collect_search_paths"
    /\ LET manifest == Unwrap(disk.manifest) IN
       \E workspace_ok \in BOOLEAN, found \in [1..Len(manifest.dependencies) -> BOOLEAN] :
        IF manifest.dependencies # << >> /\ ~workspace_ok
        THEN /\ Return(Err("IOError", "Workspace::get"))
             /\ UNCHANGED << additional_search_paths, dep_found >>
        ELSE /\ additional_search_paths' = SearchPathsOf(manifest, found)
             /\ dep_found' = found
             /\ pc' = "load_begin"
             /\ UNCHANGED << result, tmp >>
    /\ UNCHANGED << sys, host_os, disk, env, dll_dirs, remote, dry_run, target_platform, nospub,
                    manifest_file, ident, api_version, min_required_minor_opt, pkg, loader,
                    pre, caller_args, env_at_load, sym_found, fetch_add_calls, create_gh_release_calls,
                    run_if_not_calls >>

\* ------------------------------------------------------------------ load_module_with_search_paths
OrEmpty(o) == IF IsSome(o) THEN Unwrap(o) ELSE << >>

\* Lines 73-76, and 138-143 on Windows.
LoadBegin ==
    /\ pc = "load_begin"
    /\ IF host_os # "windows"
       THEN /\ original_var' = env[SearchVar(host_os)]
            /\ lib_dir_i' = 1
            /\ pc' = IF additional_search_paths = << >> THEN "load_library"
                     ELSE "load_add_path"
            /\ UNCHANGED << dll_cookies, res >>
       ELSE \E set_default_ok \in BOOLEAN :
             IF ~set_default_ok
             THEN /\ res' = "err"
                  /\ pc' = "probe_library"
                  /\ UNCHANGED << original_var, dll_cookies, lib_dir_i >>
             ELSE /\ dll_cookies' = << >>
                  /\ lib_dir_i' = 1
                  /\ pc' = IF additional_search_paths = << >> THEN "load_library"
                           ELSE "load_add_path"
                  /\ UNCHANGED << original_var, res >>
    /\ UNCHANGED << sys, world, locals, history, result >>

\* One iteration of the loop over additional_search_paths: lines 80-99
\* (lib_dir is a PathBuf: ":" and then the variable's value are pushed onto it
\* as paths, and the variable is set to the result), lines 144-160 on Windows (AddDllDirectory;
\* a directory that does not exist is skipped, a failure returns at once).
LoadAddPath ==
    /\ pc = "load_add_path"
    /\ LET lib_dir == additional_search_paths[lib_dir_i]
           var == SearchVar(host_os)
           after == IF lib_dir_i = Len(additional_search_paths) THEN "load_library"
                    ELSE "load_add_path"
       IN  IF host_os # "windows"
           THEN /\ env' = [env EXCEPT ![var] =
                               Some(PathPush(PathPush(lib_dir, << ":" >>), OrEmpty(env[var])))]
                /\ lib_dir_i' = lib_dir_i + 1
                /\ pc' = after
                /\ UNCHANGED << dll_dirs, dll_cookies, res >>
           ELSE \E exists \in BOOLEAN, added \in BOOLEAN :
                 IF ~exists
                 THEN /\ lib_dir_i' = lib_dir_i + 1
                      /\ pc' = after
                      /\ UNCHANGED << env, dll_dirs, dll_cookies, res >>
                 ELSE IF ~added
                 THEN /\ res' = "err"
                      /\ pc' = "probe_library"
                      /\ UNCHANGED << env, dll_dirs, dll_cookies, lib_dir_i >>
                 ELSE /\ dll_dirs' = dll_dirs \cup { lib_dir }
                      /\ dll_cookies' = Append(dll_cookies, lib_dir)
                      /\ lib_dir_i' = lib_dir_i + 1
                      /\ pc' = after
                      /\ UNCHANGED << env, res >>
    /\ UNCHANGED << sys, host_os, disk, remote, tmp, locals, original_var, history, result >>

\* Lines 104-108 and 161: Library::new.
LoadLibrary ==
    /\ pc = "load_library"
    /\ \E loaded \in BOOLEAN : res' = IF loaded THEN "ok" ELSE "err"
    /\ env_at_load' = Some([binary_path |-> BinaryRelPath
                                 \o << ".", BinaryExtension(Unwrap(target_platform).os) >>,
                             env |-> env, dll_dirs |-> dll_dirs])
    /\ pc' = "load_restore"
    /\ UNCHANGED << sys, world, locals, original_var, dll_cookies, lib_dir_i, pre, caller_args, dep_found,
                    sym_found, fetch_add_calls, create_gh_release_calls, run_if_not_calls,
                    result >>

\* Lines 110-125: set the variable back, or remove it when it was not set;
\* lines 162-164 on Windows: RemoveDllDirectory for every cookie.
LoadRestore ==
    /\ pc = "load_restore"
    /\ IF host_os # "windows"
       THEN /\ env' = [env EXCEPT ![SearchVar(host_os)] = original_var]
            /\ UNCHANGED dll_dirs
       ELSE /\ dll_dirs' = dll_dirs \ { dll_cookies[i] : i \in 1..Len(dll_cookies) }
            /\ UNCHANGED env
    /\ pc' = "probe_library"
    /\ UNCHANGED << sys, host_os, disk, remote, tmp, locals, loader, history, result >>

\* ------------------------------------------------------------------ run_publish: the probe
\* What the library's API version function writes to its out-parameters.
LibraryApiVersion == << "1", "4", "0" >>

\* Lines 306-328: a library that did not load is an error; the API version
\* symbol is looked up with expect.
ProbeLibrary ==
    /\ pc = "probe_library"
    /\ IF res = "err"
       THEN /\ Return(Err("InvalidArgumentError", "Could not load dynamic library"))
            /\ UNCHANGED << api_version, sym_found >>
       ELSE \E has_api_version_func \in BOOLEAN :
             /\ sym_found' = << has_api_version_func >>
             /\ IF ~has_api_version_func
                THEN Return(Panic("Failed to get symbol")) /\ UNCHANGED api_version
                ELSE /\ api_version' = Some(LibraryApiVersion)
                     /\ pc' = "probe_min"
                     /\ UNCHANGED << result, tmp >>
    /\ UNCHANGED << sys, host_os, disk, env, dll_dirs, remote, dry_run, target_platform, nospub,
                    manifest_file, ident, additional_search_paths, min_required_minor_opt,
                    pkg, loader, pre, caller_args, env_at_load, dep_found, fetch_add_calls,
                    create_gh_release_calls, run_if_not_calls >>

\* Lines 335-342: the symbol is optional, and a value of 0 or less sets nothing.
MinRequiredOf(sym) ==
    IF IsSome(sym) /\ Unwrap(sym) > 0 THEN Some(Unwrap(sym)) ELSE NoneV

\* Lines 329-343: the optional minimum-required-minor symbol.
ProbeMin ==
    /\ pc = "probe_min"
    /\ \E get_min_required_minor_func \in { NoneV, Some(3) } :
        /\ sym_found' = Append(sym_found, IsSome(get_min_required_minor_func))
        /\ min_required_minor_opt' = MinRequiredOf(get_min_required_minor_func)
    /\ pc' = "resolve_identity"
    /\ UNCHANGED << sys, world, dry_run, target_platform, nospub, manifest_file, ident,
                    additional_search_paths, api_version, pkg, loader, pre, caller_args, env_at_load,
                    dep_found, fetch_add_calls, create_gh_release_calls, run_if_not_calls,
                    result >>

\* ------------------------------------------------------------------ run_publish: identity
\* Lines 348-361: the package type, the name and the version must be known by
\* now (from the manifest, else from the caller); the version gets its suffix
\* and the tag is "{name}-{version}-{platform}". The caller's --name, --version
\* and --type reach this point only when no manifest overrode them.
FinalVersionWithoutSuffix(ver, suffix) == ver

\* Line 360: version.unwrap() + version_suffix.
FinalVersion(ver, suffix) == ver \o suffix

ResolveIdentity ==
    /\ pc = "resolve_identity"
    /\ \E caller \in CallerInputs, suffix \in SuffixInputs :
        LET ty == IF IsSome(package_type) THEN package_type ELSE caller.type
            nm == IF IsSome(manifest_file) THEN name ELSE caller.name
            ver == IF IsSome(manifest_file) THEN version ELSE caller.version
        IN  /\ caller_args' = IF IsSome(manifest_file) THEN NoneV ELSE Some(caller)
            /\ IF IsNone(ty)
               THEN /\ Return(Panic("package_type.unwrap() on None"))
                    /\ UNCHANGED << package_type, name, version, version_suffix, tag >>
               ELSE IF IsNone(nm)
               THEN /\ Return(Err("InvalidArgumentError", "Name is not provided"))
                    /\ UNCHANGED << package_type, name, version, version_suffix, tag >>
               ELSE IF IsNone(ver)
               THEN /\ Return(Err("InvalidArgumentError", "Version is not provided"))
                    /\ UNCHANGED << package_type, name, version, version_suffix, tag >>
               ELSE /\ package_type' = ty
                    /\ name' = nm
                    /\ version_suffix' = Some(suffix)
                    /\ version' = Some(FinalVersion(Unwrap(ver), suffix))
                    /\ tag' = Join3(Unwrap(nm), FinalVersion(Unwrap(ver), suffix),
                                    PlatformToString(Unwrap(target_platform)))
                    /\ pc' = "validate_identity"
                    /\ UNCHANGED << result, tmp >>
    /\ UNCHANGED << sys, host_os, disk, env, dll_dirs, remote, dry_run, target_platform, nospub,
                    manifest_file, dependencies, probe, artifact_file_path, archive, release,
                    commit_sha, loader, pre, env_at_load, dep_found, sym_found,
                    fetch_add_calls, create_gh_release_calls, run_if_not_calls >>

VersionAcceptedAlways(v) == TRUE

\* Line 370: the version must parse.
VersionAccepted(v) == IsSome(SemVerParse(v))

\* Lines 367-373: the name and the version are validated, then the workspace is read.
ValidateIdentity ==
    /\ pc = "validate_identity"
    /\ \E workspace_ok \in BOOLEAN :
        IF ~is_name_valid(Unwrap(name))
        THEN Return(Err("InvalidArgumentError", "Name is not valid"))
        ELSE IF ~VersionAccepted(Unwrap(version))
        THEN Return(Err("InvalidArgumentError", "Version should be semantic-versioning compatible"))
        ELSE IF ~workspace_ok
        THEN Return(Err("IOError", "Workspace::get"))
        ELSE pc' = "package" /\ UNCHANGED << result, tmp >>
    /\ UNCHANGED << sys, host_os, disk, env, dll_dirs, remote, locals, loader, history >>

\* ------------------------------------------------------------------ run_publish: packaging
TempDir == << "tmpdir" >>
FilePath == << "work", "/", "artifact.bin" >>

RECURSIVE FileName(_)
\* Path::file_name: what follows the last separator.
FileName(path) ==
    IF \E i \in 1..Len(path) : path[i] = "/"
    THEN FileName(Tail(path)) ELSE path

\* Lines 381-392: the files of the directory that a release glob matches.
FilesToRelease(d, globs) ==
    { f \in FilesOf(d) : \E i \in 1..Len(globs) : GlobMatch(globs[i], f) }

BufferOfUnrewritten(d, manifest, file_path, ver) == ContentOf(d, file_path)

\* Lines 405-411: the manifest's info.id.version becomes the final version (the
\* JSON is serialized anew); every other file is read as it is.
BufferOf(d, manifest, file_path, ver) ==
    IF IsSome(manifest) /\ file_path = Unwrap(manifest)
    THEN [json |-> TRUE,
          value |-> Some([Unwrap(d.manifest) EXCEPT !.version = ver]),
          bytes |-> << >>]
    ELSE ContentOf(d, file_path)

SourceAfterReadRewritten(d, manifest, ver) ==
    IF IsSome(manifest) /\ IsSome(d.manifest)
    THEN [d EXCEPT !.manifest = Some([Unwrap(d.manifest) EXCEPT !.version = ver])]
    ELSE d

\* Lines 399-414: every file is opened for reading (File::open) and read into a
\* local buffer; the rewritten manifest is assigned to that buffer only, and
\* nothing is written back under the published path.
SourceAfterRead(d, manifest, ver) == d

\* Line 416: the archive format follows the host.
ArchiveFileName(t, os) == t \o << ".", IF os = "windows" THEN "zip" ELSE "tar.gz" >>

\* Lines 375-463: a directory is archived into a temporary directory, from
\* buffers read into memory; a single file is the artifact as it is.
Package ==
    /\ pc = "package"
    /\ IF disk.kind = "dir"
       THEN LET archive_file_name == ArchiveFileName(tag, host_os)
                archive_file_path == TempDir \o << "/" >> \o archive_file_name
            IN  /\ archive' = Some([file_name |-> archive_file_name,
                                    entries |-> { [path |-> f,
                                                   buffer |-> BufferOf(disk, manifest_file, f,
                                                                       Unwrap(version))] :
                                                  f \in FilesToRelease(disk, nospub.release_globs) }])
                /\ disk' = SourceAfterRead(disk, manifest_file, Unwrap(version))
                /\ artifact_file_path' = Some(archive_file_path)
                /\ tmp' = tmp \cup { TempDir, archive_file_path }
       ELSE /\ artifact_file_path' = Some(FilePath)
            /\ tmp' = tmp \cup { TempDir }
            /\ UNCHANGED << archive, disk >>
    /\ pc' = "find_remote"
    /\ UNCHANGED << sys, host_os, env, dll_dirs, remote, dry_run, target_platform, nospub,
                    manifest_file, ident, probe, tag, release, commit_sha, loader, history,
                    result >>

\* Lines 472-491: the release entry.
ReleaseEntry(ver, url, ty, api, deps, platform, min_minor) ==
    [version |-> ver,
     url |-> url,
     plugin_api_version |-> IF ty = "Plugin" THEN api ELSE NoneV,
     subsystem_api_version |-> IF ty = "Subsystem" THEN api ELSE NoneV,
     dependencies |-> deps,
     platform |-> Some(PlatformToString(platform)),
     min_required_api_minor_version |-> min_minor]

ReleaseUrlOfPath(t, artifact) ==
    RemoteUrl \o << "/releases/download/" >> \o t \o << "/" >> \o artifact

\* Line 475: "{remote.url}/releases/download/{tag}/{file name of the artifact}".
ReleaseUrl(t, artifact) ==
    RemoteUrl \o << "/releases/download/" >> \o t \o << "/" >> \o FileName(artifact)

\* Lines 466-495: the remote must be configured; the entry is built.
FindRemote ==
    /\ pc = "find_remote"
    /\ \E remote_found \in BOOLEAN :
        IF ~remote_found
        THEN Return(Err("InvalidArgumentError", "Remote not found")) /\ UNCHANGED release
        ELSE /\ release' = Some(ReleaseEntry(Unwrap(version),
                                             ReleaseUrl(tag, Unwrap(artifact_file_path)),
                                             Unwrap(package_type), api_version, dependencies,
                                             Unwrap(target_platform), min_required_minor_opt))
             /\ pc' = "fetch_add"
             /\ UNCHANGED << result, tmp >>
    /\ UNCHANGED << sys, host_os, disk, env, dll_dirs, remote, dry_run, target_platform, nospub,
                    manifest_file, ident, probe, tag, artifact_file_path, archive, commit_sha,
                    loader, history >>

\* ------------------------------------------------------------------ the remote backend
run_if_not_always(dry, cmd) ==
    [cmd |-> cmd, dry_run |-> dry, executed |-> TRUE, output |-> Some(cmd)]

\* run_if_not: with dry_run the command is only printed and None is returned;
\* otherwise the command runs and its Output is returned.
run_if_not(dry, cmd) ==
    IF dry
    THEN [cmd |-> cmd, dry_run |-> dry, executed |-> FALSE, output |-> NoneV]
    ELSE [cmd |-> cmd, dry_run |-> dry, executed |-> TRUE, output |-> Some(cmd)]

SameTriple(e, nm, entry) ==
    /\ e.name = nm
    /\ e.release.version = entry.version
    /\ e.release.platform = entry.platform

\* fetch_add without the replacement: the entry is added next to the entry
\* of the same (name, version, platform).
fetch_add_keeping(dry, idx, hd, nm, vendor, entry, commit_ok) ==
    LET known == \E e \in idx : e.name = nm
        run == run_if_not(dry, "git push")
    IN  IF ~known /\ IsNone(vendor)
        THEN [ok |-> FALSE, index |-> idx, head |-> hd, commit |-> 0, runs |-> << >>]
        ELSE IF ~run.executed
        THEN [ok |-> TRUE, index |-> idx, head |-> hd, commit |-> 0, runs |-> << run >>]
        ELSE IF ~commit_ok
        THEN [ok |-> FALSE, index |-> idx, head |-> hd, commit |-> 0, runs |-> << run >>]
        ELSE [ok |-> TRUE,
              index |-> idx \cup { [name |-> nm, release |-> entry, commit |-> hd + 1] },
              head |-> hd + 1, commit |-> hd + 1, runs |-> << run >>]

\* Remote::fetch_add: registers the entry under the module's name, replacing
\* the entry of the same (name, version, platform); a module the index does
\* not know needs a vendor. The write goes through run_if_not, so that a dry
\* run writes nothing and returns a synthetic reference (0); commit_ok is
\* whether the backend accepted the write. Returns the commit reference.
fetch_add(dry, idx, hd, nm, vendor, entry, commit_ok) ==
    LET known == \E e \in idx : e.name = nm
        run == run_if_not(dry, "git push")
    IN  IF ~known /\ IsNone(vendor)
        THEN [ok |-> FALSE, index |-> idx, head |-> hd, commit |-> 0, runs |-> << >>]
        ELSE IF ~run.executed
        THEN [ok |-> TRUE, index |-> idx, head |-> hd, commit |-> 0, runs |-> << run >>]
        ELSE IF ~commit_ok
        THEN [ok |-> FALSE, index |-> idx, head |-> hd, commit |-> 0, runs |-> << run >>]
        ELSE [ok |-> TRUE,
              index |-> { e \in idx : ~SameTriple(e, nm, entry) }
                        \cup { [name |-> nm, release |-> entry, commit |-> hd + 1] },
              head |-> hd + 1, commit |-> hd + 1, runs |-> << run >>]

\* Remote::create_gh_release: uploads the artifacts as the hosted release of
\* the tag, at the given commit; through run_if_not, so that a dry run uploads
\* nothing. upload_ok is whether the backend accepted the upload.
create_gh_release(dry, rel, commit, t, artifacts, upload_ok) ==
    LET run == run_if_not(dry, "gh release create")
    IN  IF ~run.executed
        THEN [ok |-> TRUE, releases |-> rel, runs |-> << run >>]
        ELSE IF ~upload_ok
        THEN [ok |-> FALSE, releases |-> rel, runs |-> << run >>]
        ELSE [ok |-> TRUE,
              releases |-> { r \in rel : r.tag # t }
                           \cup { [tag |-> t, commit |-> commit,
                                   files |-> { FileName(artifacts[i]) :
                                               i \in 1..Len(artifacts) }] },
              runs |-> << run >>]

\* ------------------------------------------------------------------ run_publish: registration
FetchAddFailedIgnored(r) == FALSE

\* Lines 499-501: res.is_err().
FetchAddFailed(r) == ~r.ok

\* Lines 497-502: register the entry; an error of fetch_add ends the publish.
FetchAdd ==
    /\ pc = "fetch_add"
    /\ \E vendor \in { NoneV, Some("vendor") }, commit_ok \in BOOLEAN :
        LET r == fetch_add(dry_run, index, head, Unwrap(name), vendor, Unwrap(release),
                           commit_ok)
        IN  /\ index' = r.index
            /\ head' = r.head
            /\ run_if_not_calls' = run_if_not_calls \o r.runs
            /\ fetch_add_calls' = Append(fetch_add_calls,
                   [dry_run |-> dry_run, name |-> Unwrap(name), release |-> Unwrap(release),
                    ok |-> r.ok, commit |-> r.commit])
            /\ IF FetchAddFailed(r)
               THEN Return(Err("GenericError", "fetch_add")) /\ UNCHANGED commit_sha
               ELSE /\ commit_sha' = Some(r.commit)
                    /\ pc' = "create_gh_release"
                    /\ UNCHANGED << result, tmp >>
    /\ UNCHANGED << sys, host_os, disk, env, dll_dirs, releases, dry_run, target_platform, nospub,
                    manifest_file, ident, probe, tag, artifact_file_path, archive, release,
                    loader, pre, caller_args, env_at_load, dep_found, sym_found, create_gh_release_calls >>

\* Lines 504-510: upload the artifact as the release of the tag, at the commit
\* fetch_add returned.
CreateGhRelease ==
    /\ pc = "create_gh_release"
    /\ \E upload_ok \in BOOLEAN :
        LET r == create_gh_release(dry_run, releases, Unwrap(commit_sha), tag,
                                   << Unwrap(artifact_file_path) >>, upload_ok)
        IN  /\ releases' = r.releases
            /\ run_if_not_calls' = run_if_not_calls \o r.runs
            /\ create_gh_release_calls' = Append(create_gh_release_calls,
                   [dry_run |-> dry_run, commit_sha |-> Unwrap(commit_sha),
                    name |-> Unwrap(name), version |-> Unwrap(version),
                    platform |-> PlatformToString(Unwrap(target_platform)),
                    tag |-> tag, artifacts |-> << Unwrap(artifact_file_path) >>, ok |-> r.ok])
            /\ IF ~r.ok
               THEN Return(Err("GenericError", "create_gh_release"))
               ELSE Return(Ok("true"))
    /\ UNCHANGED << sys, host_os, disk, env, dll_dirs, index, head, locals, loader, pre, caller_args,
                    env_at_load, dep_found, sym_found, fetch_add_calls >>

Next == CheckTools \/ ResolvePlatform \/ CheckPath \/ LoadOptions \/ FindManifest
        \/ ReadManifest \/ CollectSearchPaths
        \/ LoadBegin \/ LoadAddPath \/ LoadLibrary \/ LoadRestore
        \/ ProbeLibrary \/ ProbeMin
        \/ ResolveIdentity \/ ValidateIdentity \/ Package \/ FindRemote
        \/ FetchAdd \/ CreateGhRelease
Spec == Init /\ [][Next]_vars

\* ------------------------------------------------------------------ main
\* One nosman process after another on the same directories: the arguments
\* are parsed, main looks for the registered command they name, checks the
\* workspace marker if the command needs one, runs the command and exits.

\* commands(): the registered commands, in order, each by its subcommand.
commands ==
    << "init", "remote add", "remote list", "install", "info", "remove", "rescan",
       "deinit" >>

\* The subcommands that main declares to the argument parser.
Subcommands ==
    { "init", "deinit", "install", "remove", "rescan", "list", "info", "sdk-info",
      "remote", "remote add", "remote list", "remote remove", "create", "publish",
      "publish-batch" }

\* Command::matched_args: Some when the parsed subcommand is the command's.
matched_args(c, m) == IsSome(m.subcommand) /\ Unwrap(m.subcommand) = c

needs_workspace_never(c) == FALSE

\* Command::needs_workspace: true by default, false for InitCommand.
needs_workspace(c) == c # "init"

\* a is d or a directory above it.
IsSelfOrAncestor(a, d) == Len(a) <= Len(d) /\ SubSeq(d, 1, Len(a)) = a

\* workspace::find_root_from: the nearest directory, from dir upwards, that
\* carries the marker.
find_root_from(f, dir) ==
    LET marked == { a \in DOMAIN f : IsSelfOrAncestor(a, dir) /\ IsSome(f[a]) }
    IN  IF marked = { } THEN NoneV
        ELSE Some(CHOOSE a \in marked : \A b \in marked : Len(b) <= Len(a))

\* Workspace::new: creates the marker under dir with an empty registry of
\* installed modules; created is whether the filesystem let it.
WorkspaceNew(f, dir, created) ==
    IF created THEN [ok |-> TRUE, fs |-> [f EXCEPT ![dir] = Some({ })]]
    ELSE [ok |-> FALSE, fs |-> f]

run_init_unchecked(f, dir, created) ==
    LET w == WorkspaceNew(f, dir, created)
    IN  IF w.ok THEN [result |-> Ok("true"), fs |-> w.fs]
        ELSE [result |-> Err("IOError", "I/O error"), fs |-> w.fs]

\* InitCommand::run_init.
run_init(f, dir, created) ==
    IF IsSome(find_root_from(f, dir))
    THEN [result |-> Err("InvalidArgumentError", "Directory is already under a workspace"),
          fs |-> f]
    ELSE LET w == WorkspaceNew(f, dir, created)
         IN  IF w.ok THEN [result |-> Ok("true"), fs |-> w.fs]
             ELSE [result |-> Err("IOError", "I/O error"), fs |-> w.fs]

\* DeinitCommand: the marker of the workspace is removed.
run_deinit(f, dir) == [f EXCEPT ![dir] = NoneV]

\* What the run of a command other than init may return.
CommandResults ==
    { Ok("true"), Ok("false"), Err("IOError", "I/O error"),
      Err("InvalidArgumentError", "Invalid argument"), Panic("run panicked") }

\* CommandError's source(): IOError wraps the io::Error that caused it.
Sources(r) == IF r.variant = "IOError" THEN << "os error" >> ELSE << >>

\* print_error: the error, then every error of its causal chain.
print_error(r) ==
    << << "Error: ", r.msg >> >>
    \o [i \in 1..Len(Sources(r)) |-> << "Caused by: ", Sources(r)[i] >>]

ExitStatusAlwaysZero(r) == 0

\* Lines 286-294 and 307: Ok(_) reaches exit(0), Err(e) is printed and exits
\* with 1; a panic ends the process with status 101.
ExitStatusOf(r) ==
    IF r.status = "Ok" THEN 0 ELSE IF r.status = "Err" THEN 1 ELSE 101

\* run_publish is not part of the behaviour.
PublishIdle ==
    /\ host_os = "linux"
    /\ disk = [kind |-> "missing", options |-> NoneV, plugin |-> "none",
               subsystem |-> "none", manifest |-> NoneV]
    /\ env = [v \in EnvVars |-> NoneV]
    /\ dll_dirs = { }
    /\ index = { } /\ releases = { } /\ head = 0
    /\ tmp = { }
    /\ pc = "idle"
    /\ dry_run = FALSE
    /\ PublishLocalsInit
    /\ pre = World

\* A process starts: nothing parsed, nothing run.
ProcessStart ==
    /\ m_pc = "start"
    /\ matches = NoneV
    /\ current_root = NoneV
    /\ command_i = 0
    /\ run_result = NoneV
    /\ exit_status = NoneV
    /\ stderr = << >>
    /\ ran = << >>

\* Any of the directories may already be a workspace, with or without
\* installed modules.
MainInit ==
    /\ PublishIdle
    /\ fs \in [Dirs -> { NoneV, Some({ }), Some({ "m" }) }]
    /\ ProcessStart
    /\ fs_at_start = fs
    /\ initialised = { }
    /\ ResolverIdle
    /\ CommonIdle

\* std::process::exit(status)
Exit(status) ==
    /\ m_pc' = "exited"
    /\ exit_status' = Some(status)

\* Line 273: the parsed arguments; --workspace names the root (default ".").
ParseArgs ==
    /\ m_pc = "start"
    /\ \E sub \in { NoneV } \cup { Some(c) : c \in Subcommands },
          ws \in Dirs \cup { MissingDir } :
        matches' = Some([subcommand |-> sub, workspace |-> ws])
    /\ command_i' = 1
    /\ m_pc' = "dispatch"
    /\ UNCHANGED << publish, resolver, common, fs, current_root, run_result, exit_status, stderr, ran,
                    fs_at_start, initialised >>

\* Lines 276-285 and 298-305: one iteration of the loop over commands(). A
\* command that does not match is passed over; for the one that matches the
\* root is set (canonicalize(..).unwrap() panics on a path that does not
\* exist) and, if the command needs a workspace, the marker is looked for at
\* the root. After the last command nothing matched: help is printed, exit(1).
Dispatch ==
    /\ m_pc = "dispatch"
    /\ LET m == Unwrap(matches) IN
        IF command_i > Len(commands)
        THEN Exit(1) /\ UNCHANGED << current_root, command_i, stderr >>
        ELSE IF ~matched_args(commands[command_i], m)
        THEN /\ command_i' = command_i + 1
             /\ UNCHANGED << m_pc, exit_status, current_root, stderr >>
        ELSE IF m.workspace \notin Dirs
        THEN Exit(101) /\ UNCHANGED << current_root, command_i, stderr >>
        ELSE /\ current_root' = Some(m.workspace)
             /\ IF needs_workspace(commands[command_i]) /\ IsNone(fs[m.workspace])
                THEN /\ stderr' = Append(stderr, << "No workspace found" >>)
                     /\ Exit(1)
                ELSE /\ m_pc' = "run"
                     /\ UNCHANGED << exit_status, stderr >>
             /\ UNCHANGED command_i
    /\ UNCHANGED << publish, resolver, common, fs, matches, run_result, ran, fs_at_start, initialised >>

\* Lines 286-296 and 307: the command runs; Ok ends the loop and the process
\* exits with 0, an error is printed with its causes and the process exits
\* with 1.
RunCommand ==
    /\ m_pc = "run"
    /\ LET c == commands[command_i]
           root == Unwrap(current_root)
       IN  \E created \in BOOLEAN, r \in CommandResults :
            LET out == IF c = "init" THEN run_init(fs, root, created)
                       ELSE [result |-> r,
                             fs |-> IF c = "deinit" /\ r = Ok("true")
                                    THEN run_deinit(fs, root) ELSE fs]
            IN  /\ fs' = out.fs
                /\ run_result' = Some(out.result)
                /\ ran' = Append(ran, c)
                /\ stderr' = IF out.result.status = "Err"
                              THEN stderr \o print_error(out.result) ELSE stderr
                /\ initialised' =
                      IF c = "init" /\ out.result.status = "Ok"
                      THEN initialised \cup { root }
                      ELSE IF c = "deinit" /\ out.result = Ok("true")
                      THEN initialised \ { root }
                      ELSE initialised
                /\ Exit(ExitStatusOf(out.result))
    /\ UNCHANGED << publish, resolver, common, matches, current_root, command_i, fs_at_start >>

\* The operator starts nosman again.
NewProcess ==
    /\ m_pc = "exited"
    /\ m_pc' = "start"
    /\ matches' = NoneV
    /\ current_root' = NoneV
    /\ command_i' = 0
    /\ run_result' = NoneV
    /\ exit_status' = NoneV
    /\ stderr' = << >>
    /\ ran' = << >>
    /\ fs_at_start' = fs
    /\ UNCHANGED << publish, resolver, common, fs, initialised >>

MainNext == ParseArgs \/ Dispatch \/ RunCommand \/ NewProcess
MainSpec == MainInit /\ [][MainNext]_vars

\* ------------------------------------------------------------------ the resolver
\* Version requests of install and info: a token, the exact flag, and the
\* candidate versions by origin (installed modules, remote index).

DigitValue(c) ==
    CASE c = "0" -> 0 [] c = "1" -> 1 [] c = "2" -> 2 [] c = "3" -> 3
      [] c = "4" -> 4 [] c = "5" -> 5 [] c = "7" -> 7

RECURSIVE UIntValue(_)
\* The number a string of digits denotes.
UIntValue(comp) ==
    IF comp = << >> THEN 0
    ELSE UIntValue(SubSeq(comp, 1, Len(comp) - 1)) * 10 + DigitValue(comp[Len(comp)])

\* SemVer: the components present, in order (major first), as numbers.
SemVerOf(str) ==
    LET parts == SemVerParse(str)
    IN  IF IsNone(parts) THEN NoneV
        ELSE Some([i \in 1..Len(Unwrap(parts)) |-> UIntValue(Unwrap(parts)[i])])

\* A version with its absent components filled in.
Padded(v, fill) == [i \in 1..4 |-> IF i <= Len(v) THEN v[i] ELSE fill]

\* The order of range computations: by component, major first.
LexLess(a, b) ==
    \E i \in 1..4 : a[i] < b[i] /\ \A j \in 1..(i - 1) : a[j] = b[j]

\* In range computations an absent patch or build counts as 0.
Key(v) == Padded(v, 0)

\* minor_range: [v with absent patch and build as 0, the next minor), defined
\* only when v has a minor component.
minor_range(v) ==
    IF Len(v) < 2 THEN NoneV
    ELSE Some([lower |-> Padded(v, 0), upper |-> Padded(<< v[1], v[2] + 1 >>, 0)])

InRange(x, range) == ~LexLess(Key(x), range.lower) /\ LexLess(Key(x), range.upper)

\* The candidate with the greatest version.
MaxVersion(cands) ==
    CHOOSE x \in cands :
        \A y \in cands : ~LexLess(Key(Unwrap(SemVerOf(x))), Key(Unwrap(SemVerOf(y))))

Latest == << "latest" >>

Failed(variant) ==
    [status |-> "Err", variant |-> variant, version |-> NoneV, origin |-> "",
     remote_accessed |-> FALSE]
Found(ver, origin, remote_accessed) ==
    [status |-> "Ok", variant |-> "", version |-> Some(ver), origin |-> origin,
     remote_accessed |-> remote_accessed]

ResolveLatestAnyMode(exact, installed, available) ==
    IF installed \cup available = { } THEN Failed("NotFound")
    ELSE LET x == MaxVersion(installed \cup available)
         IN  Found(x, IF x \in installed THEN "installed" ELSE "remote", TRUE)

\* Step 1: "latest" is the greatest of all candidates, and is no request in
\* exact mode.
ResolveLatest(exact, installed, available) ==
    IF exact THEN Failed("InvalidArgument")
    ELSE IF installed \cup available = { } THEN Failed("NotFound")
    ELSE LET x == MaxVersion(installed \cup available)
         IN  Found(x, IF x \in installed THEN "installed" ELSE "remote", TRUE)

\* Step 3: the candidate whose version string is the token.
ResolveExact(token, v, installed, available) ==
    IF Len(v) < 2 THEN Failed("ImpreciseVersion")
    ELSE IF token \in installed THEN Found(token, "installed", FALSE)
    ELSE IF token \in available THEN Found(token, "remote", TRUE)
    ELSE Failed("NotFound")

ResolveRangeMerged(v, installed, available) ==
    IF IsNone(minor_range(v)) THEN Failed("ImpreciseVersion")
    ELSE LET range == Unwrap(minor_range(v))
             all == { x \in installed \cup available : InRange(Unwrap(SemVerOf(x)), range) }
         IN  IF all = { } THEN Failed("NotFound")
             ELSE Found(MaxVersion(all),
                        IF MaxVersion(all) \in installed THEN "installed" ELSE "remote",
                        TRUE)

\* Step 4: the greatest installed version in the range of the token; failing
\* that, the greatest in the remote's, which is then to be installed.
ResolveRange(v, installed, available) ==
    IF IsNone(minor_range(v)) THEN Failed("ImpreciseVersion")
    ELSE LET range == Unwrap(minor_range(v))
             local == { x \in installed : InRange(Unwrap(SemVerOf(x)), range) }
             far == { x \in available : InRange(Unwrap(SemVerOf(x)), range) }
         IN  IF local # { } THEN Found(MaxVersion(local), "installed", FALSE)
             ELSE IF far # { } THEN Found(MaxVersion(far), "remote", TRUE)
             ELSE Failed("NotFound")

\* The resolver.
Resolve(token, exact, installed, available) ==
    IF token = Latest THEN ResolveLatest(exact, installed, available)
    ELSE IF IsNone(SemVerOf(token)) THEN Failed("InvalidArgument")
    ELSE IF exact THEN ResolveExact(token, Unwrap(SemVerOf(token)), installed, available)
    ELSE ResolveRange(Unwrap(SemVerOf(token)), installed, available)

Ver(a, b, c) == << a, ".", b, ".", c >>

\* The versions a module may be installed in, or released in by the remote.
CandidateVersions ==
    { Ver("1", "2", "0"), Ver("1", "2", "5"), Ver("1", "3", "2"), Ver("2", "0", "0") }

\* The version argument of install and info: "latest" (install's default),
\* versions with a patch, a minor-precise one, a major-only one, one that is
\* no version.
TokenInputs ==
    { Latest, Ver("1", "2", "1"), Ver("1", "2", "5"), Ver("1", "3", "0"),
      << "1", ".", "2" >>, << "1" >>, << "v", "1" >> }

Requests ==
    [token : TokenInputs, exact : BOOLEAN,
     installed : SUBSET CandidateVersions, available : SUBSET CandidateVersions]

ResolverInit ==
    /\ PublishIdle
    /\ MainIdle
    /\ CommonIdle
    /\ request \in { Some(r) : r \in Requests }
    /\ resolution = NoneV

\* The request is resolved.
ResolveRequest ==
    /\ IsSome(request)
    /\ resolution = NoneV
    /\ LET r == Unwrap(request)
       IN  resolution' = Some(Resolve(r.token, r.exact, r.installed, r.available))
    /\ UNCHANGED << publish, fs, process, initialised, common, request >>

ResolverNext == ResolveRequest
ResolverSpec == ResolverInit /\ [][ResolverNext]_vars


\* ------------------------------------------------------------------ common.rs: ask
\* The longest standard input of an ask.
MaxLines == 3

IsWhitespace(c) == c \in { " ", "\n" }

RECURSIVE TrimStart(_)
TrimStart(str) ==
    IF str # << >> /\ IsWhitespace(Head(str)) THEN TrimStart(Tail(str)) ELSE str

RECURSIVE TrimEnd(_)
TrimEnd(str) ==
    IF str # << >> /\ IsWhitespace(str[Len(str)])
    THEN TrimEnd(SubSeq(str, 1, Len(str) - 1)) ELSE str

\* str::trim
Trim(str) == TrimEnd(TrimStart(str))

\* str::to_lowercase
ToLowercase(str) ==
    [i \in 1..Len(str) |->
        IF str[i] = "Y" THEN "y" ELSE IF str[i] = "N" THEN "n"
        ELSE IF str[i] = "X" THEN "x" ELSE str[i]]

\* The lines a user may type, each with its line terminator.
Lines ==
    { << "y", "\n" >>, << " ", "Y", "\n" >>, << "n", "\n" >>, << "N", " ", "\n" >>,
      << "\n" >>, << "x", "\n" >>, << "X", "\n" >> }

\* Standard input: up to MaxLines lines, then the end of the input.
Inputs == UNION { [1..k -> Lines] : k \in 0..MaxLines }

\* Stdin::read_line: appends the next line, terminator included, to buf; at
\* the end of the input it appends nothing.
read_line(buf, input) ==
    IF input = << >> THEN [buf |-> buf, input |-> input, n |-> 0]
    ELSE [buf |-> buf \o Head(input), input |-> Tail(input), n |-> 1]

\* ask is called: line 59.
AskInit ==
    /\ PublishIdle
    /\ MainIdle
    /\ ResolverIdle
    /\ CompareIdle
    /\ ExtractIdle
    /\ ask_pc = "loop"
    /\ default \in BOOLEAN
    /\ do_default \in BOOLEAN
    /\ answer = << >>
    /\ stdin \in Inputs
    /\ ask_result = NoneV
    /\ ask_input = stdin
    /\ lines_read = 0

\* One iteration of the loop, lines 61-74: the line is read into answer,
\* which still holds the previous iteration's trimmed text.
AskIteration ==
    /\ ask_pc = "loop"
    /\ LET r == read_line(answer, stdin)
           a == ToLowercase(Trim(r.buf))
       IN  /\ answer' = a
           /\ stdin' = r.input
           /\ lines_read' = lines_read + r.n
           /\ IF a = << "y" >> THEN ask_pc' = "returned" /\ ask_result' = Some(TRUE)
              ELSE IF a = << "n" >> THEN ask_pc' = "returned" /\ ask_result' = Some(FALSE)
              ELSE IF a = << >> THEN ask_pc' = "returned" /\ ask_result' = Some(do_default)
              ELSE UNCHANGED << ask_pc, ask_result >>
    /\ UNCHANGED << publish, fs, process, initialised, resolver, default, do_default,
                    ask_input, comparing, extracting >>

AskNext == AskIteration
AskSpec == AskInit /\ [][AskNext]_vars

\* ------------------------------------------------------------------ common.rs: check_file_contents_same
\* The longest file, and the size of the two buffers: the 1024 of lines 40-41
\* scaled down, so that a file spans several reads.
MaxFileLen == 3
BufSize == 2

Bytes == { 0, 1 }
Files == UNION { [1..k -> Bytes] : k \in 0..MaxFileLen }

Min(a, b) == IF a < b THEN a ELSE b

\* The numbers of bytes a read into buf may return: none at the end of the
\* file, otherwise from one byte to what fits and is left.
ReadSizes(file, pos) ==
    IF pos = Len(file) THEN { 0 } ELSE 1..Min(BufSize, Len(file) - pos)

\* Read::read returning n bytes: they are stored at the start of buf, the
\* rest of buf keeps what it held.
ReadInto(buf, file, pos, n) ==
    [i \in 1..BufSize |-> IF i <= n THEN file[pos + i] ELSE buf[i]]

\* check_file_contents_same is called: lines 38-41.
CompareInit ==
    /\ PublishIdle
    /\ MainIdle
    /\ ResolverIdle
    /\ AskIdle
    /\ ExtractIdle
    /\ cmp_pc = "lengths"
    /\ file1 \in Files
    /\ file2 \in Files
    /\ pos1 = 0
    /\ pos2 = 0
    /\ buf1 = [i \in 1..BufSize |-> 0]
    /\ buf2 = [i \in 1..BufSize |-> 0]
    /\ cmp_result = NoneV

\* Lines 42-44: files of different lengths differ.
CompareLengths ==
    /\ cmp_pc = "lengths"
    /\ IF Len(file1) # Len(file2)
       THEN cmp_pc' = "returned" /\ cmp_result' = Some(FALSE)
       ELSE cmp_pc' = "loop" /\ UNCHANGED cmp_result
    /\ UNCHANGED << publish, fs, process, initialised, resolver, asking, extracting,
                    file1, file2, pos1, pos2, buf1, buf2 >>

\* One iteration of the loop, lines 46-53: one read of each file, then the
\* counts and the whole buffers are compared.
CompareIteration ==
    /\ cmp_pc = "loop"
    /\ \E n1 \in ReadSizes(file1, pos1), n2 \in ReadSizes(file2, pos2) :
        /\ buf1' = ReadInto(buf1, file1, pos1, n1)
        /\ buf2' = ReadInto(buf2, file2, pos2, n2)
        /\ pos1' = pos1 + n1
        /\ pos2' = pos2 + n2
        /\ IF n1 # n2 \/ buf1' # buf2'
           THEN cmp_pc' = "returned" /\ cmp_result' = Some(FALSE)
           ELSE IF n1 = 0
           THEN cmp_pc' = "returned" /\ cmp_result' = Some(TRUE)
           ELSE UNCHANGED << cmp_pc, cmp_result >>
    /\ UNCHANGED << publish, fs, process, initialised, resolver, asking, extracting,
                    file1, file2 >>

CompareNext == CompareLengths \/ CompareIteration
CompareSpec == CompareInit /\ [][CompareNext]_vars

\* ------------------------------------------------------------------ common.rs: download_and_extract
\* The most entries of an archive.
MaxEntries == 2

\* The target directory given to download_and_extract.
TargetDir == << "/", "ws", "/", "mod" >>

\* The names an archive entry may carry; a name that ends with a separator
\* is a directory entry.
EntryNames ==
    { << "a" >>, << "d", "/" >>, << "d", "/", "f" >>,
      << "..", "/", "e" >>, << "..", "/", "x", "/" >>, << "/", "etc", "/", "p" >> }

Archives == UNION { [1..k -> EntryNames] : k \in 0..MaxEntries }

\* ZipFile::is_dir
is_dir(entry_name) == entry_name # << >> /\ entry_name[Len(entry_name)] = "/"

RECURSIVE ComponentsFrom(_, _)
\* Path::components: the components between the separators, cur being the
\* component read so far.
ComponentsFrom(path, cur) ==
    IF path = << >> THEN (IF cur = << >> THEN << >> ELSE << cur >>)
    ELSE IF Head(path) = "/"
    THEN (IF cur = << >> THEN << >> ELSE << cur >>) \o ComponentsFrom(Tail(path), << >>)
    ELSE ComponentsFrom(Tail(path), cur \o << Head(path) >>)

Components(path) == ComponentsFrom(path, << >>)

RECURSIVE ResolveFrom(_, _)
\* The directory entry the file system resolves an absolute path to: ".."
\* is the parent of what precedes it.
ResolveFrom(comps, at) ==
    IF comps = << >> THEN at
    ELSE IF Head(comps) = << ".." >>
    THEN ResolveFrom(Tail(comps), IF at = << >> THEN at ELSE SubSeq(at, 1, Len(at) - 1))
    ELSE ResolveFrom(Tail(comps), Append(at, Head(comps)))

Resolved(comps) == ResolveFrom(comps, << >>)

\* Path::exists, and what is there.
KindAt(t, comps) ==
    LET at == Resolved(comps)
    IN  IF at = << >> THEN "dir"
        ELSE IF [path |-> at, kind |-> "dir"] \in t THEN "dir"
        ELSE IF [path |-> at, kind |-> "file"] \in t THEN "file"
        ELSE "none"

\* fs::create_dir_all: every missing directory along the path is made, from
\* the outermost on; a file in the way is an error, after the directories
\* before it were made.
create_dir_all(t, comps) ==
    LET blocked == { k \in 1..Len(comps) : KindAt(t, SubSeq(comps, 1, k)) = "file" }
        upto == IF blocked = { } THEN Len(comps)
                ELSE (CHOOSE k \in blocked : \A j \in blocked : k <= j) - 1
        made == { Resolved(SubSeq(comps, 1, k)) : k \in 1..upto } \ { << >> }
        missing == { d \in made : [path |-> d, kind |-> "dir"] \notin t }
    IN  [ok |-> blocked = { },
         tree |-> t \cup { [path |-> d, kind |-> "dir"] : d \in missing },
         touched |-> missing]

\* File::create and io::copy: the file is created, or truncated and written
\* when it exists; a directory at the path, or no directory above it, is an
\* error.
create_file(t, comps) ==
    IF KindAt(t, comps) = "dir" \/ KindAt(t, SubSeq(comps, 1, Len(comps) - 1)) # "dir"
    THEN [ok |-> FALSE, tree |-> t, touched |-> { }]
    ELSE [ok |-> TRUE,
          tree |-> t \cup { [path |-> Resolved(comps), kind |-> "file"] },
          touched |-> { Resolved(comps) }]

\* The file system download_and_extract starts with: the parent of the
\* target, and a file elsewhere.
SeedTree ==
    { [path |-> << << "ws" >> >>, kind |-> "dir"],
      [path |-> << << "etc" >> >>, kind |-> "dir"],
      [path |-> << << "etc" >>, << "p" >> >>, kind |-> "file"] }

\* download_and_extract is called.
ExtractInit ==
    /\ PublishIdle
    /\ MainIdle
    /\ ResolverIdle
    /\ AskIdle
    /\ CompareIdle
    /\ ex_pc = "open"
    /\ ex_archive \in Archives
    /\ ex_i = 0
    /\ tree = SeedTree
    /\ ex_result = Running
    /\ tree_at_start = tree
    /\ touched = { }

\* Lines 10-16: the download (expect), ZipArchive::new, and the target
\* directory.
ExtractOpen ==
    /\ ex_pc = "open"
    /\ \E fetched \in BOOLEAN, is_zip \in BOOLEAN :
        IF ~fetched
        THEN /\ ex_pc' = "returned" /\ ex_result' = Panic("Failed to fetch")
             /\ UNCHANGED << tree, touched, ex_i >>
        ELSE IF ~is_zip
        THEN /\ ex_pc' = "returned" /\ ex_result' = Err("ZipError", "ZipArchive::new")
             /\ UNCHANGED << tree, touched, ex_i >>
        ELSE LET r == create_dir_all(tree, Components(TargetDir))
             IN  /\ tree' = r.tree
                 /\ touched' = touched \cup r.touched
                 /\ ex_i' = 1
                 /\ IF r.ok THEN ex_pc' = "loop" /\ UNCHANGED ex_result
                    ELSE ex_pc' = "returned" /\ ex_result' = Err("IOError", "create_dir_all")
    /\ UNCHANGED << publish, fs, process, initialised, resolver, asking, comparing,
                    ex_archive, tree_at_start >>

\* One iteration of the loop, lines 18-31: the entry's name is joined onto
\* the target and the directory or the file is made there.
ExtractEntry ==
    /\ ex_pc = "loop"
    /\ ex_i <= Len(ex_archive)
    /\ LET entry_name == ex_archive[ex_i]
           outpath == Components(PathPush(TargetDir, entry_name))
           parent == SubSeq(outpath, 1, Len(outpath) - 1)
           dirs == IF is_dir(entry_name) THEN create_dir_all(tree, outpath)
                   ELSE IF KindAt(tree, parent) = "none" THEN create_dir_all(tree, parent)
                   ELSE [ok |-> TRUE, tree |-> tree, touched |-> { }]
           r == IF is_dir(entry_name) \/ ~dirs.ok THEN dirs
                ELSE LET f == create_file(dirs.tree, outpath)
                     IN  [ok |-> f.ok, tree |-> f.tree,
                          touched |-> dirs.touched \cup f.touched]
       IN  /\ tree' = r.tree
           /\ touched' = touched \cup r.touched
           /\ IF r.ok THEN ex_i' = ex_i + 1 /\ UNCHANGED << ex_pc, ex_result >>
              ELSE /\ ex_pc' = "returned" /\ ex_result' = Err("IOError", "extract")
                   /\ UNCHANGED ex_i
    /\ UNCHANGED << publish, fs, process, initialised, resolver, asking, comparing,
                    ex_archive, tree_at_start >>

\* Line 33: every entry was extracted.
ExtractReturn ==
    /\ ex_pc = "loop"
    /\ ex_i > Len(ex_archive)
    /\ ex_pc' = "returned"
    /\ ex_result' = Ok("()")
    /\ UNCHANGED << publish, fs, process, initialised, resolver, asking, comparing,
                    ex_archive, ex_i, tree, tree_at_start, touched >>

ExtractNext == ExtractOpen \/ ExtractEntry \/ ExtractReturn
ExtractSpec == ExtractInit /\ [][ExtractNext]_vars

\* ------------------------------------------------------------------ properties
Done == pc = "done"

\* Nothing was packaged, registered or uploaded, and nothing is left behind.
NoSideEffects ==
    /\ archive = NoneV
    /\ artifact_file_path = NoneV
    /\ fetch_add_calls = << >>
    /\ create_gh_release_calls = << >>
    /\ tmp = pre.tmp
    /\ index = pre.index
    /\ releases = pre.releases

\* The publish options on disk name target platforms, and the resolved target
\* platform is not one of them.
TargetExcluded ==
    /\ disk.kind = "dir"
    /\ IsSome(disk.options)
    /\ IsSome(Unwrap(disk.options).target_platforms)
    /\ IsSome(target_platform)
    /\ PlatformToString(Unwrap(target_platform))
           \notin Unwrap(Unwrap(disk.options).target_platforms)

TagOfEntry(e) == Join3(e.name, e.release.version, Unwrap(e.release.platform))

\* C1: when run_publish has terminated, every index entry it wrote has a
\* successful (not dry) create_gh_release call for the same tag.
C1_IndexOnlyIfUploaded ==
    Done =>
        \A e \in index \ pre.index :
            \E i \in 1..Len(create_gh_release_calls) :
                /\ create_gh_release_calls[i].ok
                /\ ~create_gh_release_calls[i].dry_run
                /\ create_gh_release_calls[i].tag = TagOfEntry(e)

\* C2: with dry_run the package on disk and the remote (index, releases,
\* revision) never change, the temporary directory is gone when run_publish
\* has terminated, and a run_if_not call with dry_run runs nothing and
\* returns None.
C2_DryRunMutatesNothing ==
    /\ dry_run =>
        /\ disk = pre.disk
        /\ index = pre.index
        /\ releases = pre.releases
        /\ head = pre.head
    /\ (dry_run /\ Done) => tmp = pre.tmp
    /\ \A i \in 1..Len(run_if_not_calls) :
        run_if_not_calls[i].dry_run =>
            ~run_if_not_calls[i].executed /\ run_if_not_calls[i].output = NoneV

\* A dry run that went through packaging, fetch_add and create_gh_release.
C2_Witness ==
    /\ Done /\ dry_run /\ result = Ok("true")
    /\ IsSome(archive)
    /\ Len(run_if_not_calls) = 2

DirWithBothManifests ==
    disk.kind = "dir" /\ disk.plugin = "some" /\ disk.subsystem = "some"

\* The error of line 243, whatever the variant's name.
IsMultipleManifestsError(r) ==
    r.status = "Err" /\ r.msg = "Multiple module manifest files found"

C5_ExcludedPlatformIsNoOp ==
    /\ TargetExcluded => pc \in { "check_path", "load_options", "done" }
    /\ (Done /\ TargetExcluded) => result = Ok("false") /\ NoSideEffects

C5_Witness == Done /\ TargetExcluded /\ result = Ok("false")

\* C6: packaging and registration are reached only with a name that is not
\* empty and has only characters of [a-z0-9._].
C6_OnlyClassNamesArePackaged ==
    (pc \in { "package", "find_remote", "fetch_add", "create_gh_release" }
     \/ IsSome(artifact_file_path)) =>
        /\ Unwrap(name) # << >>
        /\ \A i \in 1..Len(Unwrap(name)) : InNameClass(Unwrap(name)[i])

\* Line 360-361 ran: the final version and the tag are set.
FinalVersionKnown == IsSome(version_suffix)

\* C7: a final version that does not parse as a SemVer ends the publish at
\* the validation with InvalidArgumentError and without side effects; every
\* entry passed to fetch_add has a version that parses.
C7_UnparseableVersionRejected ==
    /\ (FinalVersionKnown /\ IsNone(SemVerParse(Unwrap(version)))) =>
        pc \in { "validate_identity", "done" }
    /\ (Done /\ FinalVersionKnown /\ IsNone(SemVerParse(Unwrap(version)))) =>
        /\ result.status = "Err"
        /\ result.variant = "InvalidArgumentError"
        /\ NoSideEffects
    /\ \A i \in 1..Len(fetch_add_calls) :
        IsSome(SemVerParse(fetch_add_calls[i].release.version))

\* A valid name with an unparseable final version.
C7_Witness ==
    /\ Done /\ FinalVersionKnown
    /\ Unwrap(name) = Str_a7
    /\ IsNone(SemVerParse(Unwrap(version)))
    /\ result = Err("InvalidArgumentError",
                    "Version should be semantic-versioning compatible")

\* A directory whose manifest declares "2.0.0", published with suffix "-rc1".
RcCase ==
    /\ IsSome(disk.manifest)
    /\ Unwrap(disk.manifest).version = Str_200
    /\ version_suffix = Some(Str_rc1)

ArchivedManifestHasVersion(v) ==
    /\ IsSome(archive)
    /\ \E e \in Unwrap(archive).entries :
        e.buffer.json /\ Unwrap(e.buffer.value).version = v

\* C8 as stated: the final version "2.0.0-rc1" (of a validly named package)
\* fails SemVer parsing and is in the archived manifest and in the tag of the
\* release.
C8_RcVersionIsArchivedAndTagged ==
    (Done /\ RcCase /\ Unwrap(name) = Str_a7) =>
        /\ version = Some(Str_200 \o Str_rc1)
        /\ IsNone(SemVerParse(Unwrap(version)))
        /\ ArchivedManifestHasVersion(Str_200 \o Str_rc1)
        /\ \E i \in 1..Len(create_gh_release_calls) :
            create_gh_release_calls[i].tag
                = Join3(Unwrap(name), Str_200 \o Str_rc1,
                        PlatformToString(Unwrap(target_platform)))

\* C8 amended: the final version is "2.0.0-rc1", verbatim in the tag that
\* run_publish computes; it fails SemVer parsing, so the publish ends with
\* InvalidArgumentError before packaging: no archive (and no archived
\* manifest) and no release exist.
C8_RcVersionIsRejected ==
    /\ RcCase =>
        /\ version = Some(Str_200 \o Str_rc1)
        /\ tag = Join3(Unwrap(name), Str_200 \o Str_rc1,
                       PlatformToString(Unwrap(target_platform)))
        /\ IsNone(SemVerParse(Unwrap(version)))
        /\ pc \in { "validate_identity", "done" }
    /\ (Done /\ RcCase) =>
        /\ result.status = "Err"
        /\ result.variant = "InvalidArgumentError"
        /\ NoSideEffects

C8_Witness ==
    /\ Done /\ RcCase
    /\ Unwrap(name) = Str_a7
    /\ result = Err("InvalidArgumentError",
                    "Version should be semantic-versioning compatible")

\* C9: outside load_module_with_search_paths the library search state of the
\* process (the search variables, the added DLL directories) is what it was
\* when the process started.
C9_SearchStateRestored ==
    pc \notin { "load_add_path", "load_library", "load_restore" } =>
        env = pre.env /\ dll_dirs = pre.dll_dirs

\* The library did not load, or the API version symbol was not found.
ProbeFailed == res = "err" \/ sym_found = << FALSE >>

\* C10: a failed probe ends the publish with an error result and without
\* side effects; past the probe the library is loaded and the API version
\* known; a missing optional symbol leaves min_required_api_minor_version unset
\* and fails nothing.
C10_ProbeFailureIsAnError ==
    /\ (Done /\ ProbeFailed) => result.status = "Err" /\ NoSideEffects
    /\ (pc \in { "probe_min", "resolve_identity", "validate_identity", "package",
                 "find_remote", "fetch_add", "create_gh_release" }
        /\ IsSome(disk.manifest) /\ IsSome(Unwrap(disk.manifest).binary_path)) =>
        res = "ok" /\ sym_found[1] /\ IsSome(api_version)
    /\ (Len(sym_found) = 2 /\ ~sym_found[2]) =>
        min_required_minor_opt = NoneV /\ result.status # "panic"

\* The archive holds the manifest, with a version that is not the one on disk.
ArchivedManifestRewritten ==
    /\ IsSome(archive)
    /\ IsSome(pre.disk.manifest)
    /\ \E e \in Unwrap(archive).entries :
        /\ e.buffer.json
        /\ Unwrap(e.buffer.value).version # Unwrap(pre.disk.manifest).version

\* C11: at every step and for every outcome of run_publish, the published
\* path holds the files it held when the run started, each with the contents
\* it had (the manifest included).
C11_SourceFilesUntouched == 
    /\ disk = pre.disk
    /\ FilesOf(disk) = FilesOf(pre.disk)
    /\ \A f \in FilesOf(pre.disk) : ContentOf(disk, f) = ContentOf(pre.disk, f)

\* A finished real publish whose archived manifest carries a rewritten version.
C11_Witness ==
    /\ Done /\ ~dry_run /\ result = Ok("true")
    /\ ArchivedManifestRewritten

\* The manifest file is among the files the release globs collect.
ManifestCollected ==
    /\ IsSome(manifest_file)
    /\ Unwrap(manifest_file) \in FilesToRelease(pre.disk, nospub.release_globs)

\* C12: an archive holds exactly the collected files; when the manifest is
\* among them, its archived info.id.version is the final version (the version
\* of the release entry and of the tag) and the rest of the manifest is as on
\* disk; every other file is archived with its on-disk contents.
C12_ArchivedManifestHasFinalVersion ==
    IsSome(archive) =>
        /\ { e.path : e \in Unwrap(archive).entries }
               = FilesToRelease(pre.disk, nospub.release_globs)
        /\ \A e \in Unwrap(archive).entries :
            IF ManifestCollected /\ e.path = Unwrap(manifest_file)
            THEN /\ e.buffer.json
                 /\ Unwrap(e.buffer.value).version = Unwrap(version)
                 /\ Unwrap(e.buffer.value).version
                        = Unwrap(pre.disk.manifest).version \o Unwrap(version_suffix)
                 /\ [Unwrap(e.buffer.value) EXCEPT !.version = << >>]
                        = [Unwrap(pre.disk.manifest) EXCEPT !.version = << >>]
                 /\ tag = Join3(Unwrap(name), Unwrap(e.buffer.value).version,
                                PlatformToString(Unwrap(target_platform)))
                 /\ IsSome(release) =>
                        Unwrap(release).version = Unwrap(e.buffer.value).version
            ELSE e.buffer = ContentOf(pre.disk, e.path)

\* An archive with the manifest and another file, the release entry built, the
\* final version different from the version on disk.
C12_Witness ==
    /\ ManifestCollected
    /\ ArchivedManifestRewritten
    /\ IsSome(release)
    /\ \E e \in Unwrap(archive).entries : ~e.buffer.json

\* C13: the release entry given to fetch_add and the release created by
\* create_gh_release name the same package: the tag is
\* "{name}-{version}-{platform}" of the entry's name, version and platform,
\* create_gh_release gets that name, version, platform and tag, and the
\* entry's url is "{remote_url}/releases/download/{tag}/{file name}" of the
\* artifact that create_gh_release uploads.
C13_TagAndUrlAgree ==
    /\ \A i \in 1..Len(fetch_add_calls) :
        LET f == fetch_add_calls[i] IN
        /\ IsSome(f.release.platform)
        /\ f.release.version = Unwrap(version)
        /\ Unwrap(f.release.platform) = PlatformToString(Unwrap(target_platform))
        /\ tag = f.name \o << "-" >> \o f.release.version \o << "-" >>
                   \o Unwrap(f.release.platform)
        /\ f.release.url = RemoteUrl \o << "/releases/download/" >> \o tag \o << "/" >>
                               \o FileName(Unwrap(artifact_file_path))
    /\ \A i \in 1..Len(create_gh_release_calls) :
        LET c == create_gh_release_calls[i]
            f == fetch_add_calls[1]
        IN  /\ c.tag = tag
            /\ c.name = f.name
            /\ c.version = f.release.version
            /\ c.platform = Unwrap(f.release.platform)
            /\ c.artifacts = << Unwrap(artifact_file_path) >>
            /\ f.release.url = RemoteUrl \o << "/releases/download/" >> \o c.tag
                                   \o << "/" >> \o FileName(c.artifacts[1])

\* A directory publish (the artifact is an archive in the temporary
\* directory) that created its release.
C13_Witness ==
    /\ Len(create_gh_release_calls) = 1
    /\ create_gh_release_calls[1].ok
    /\ IsSome(archive)
    /\ create_gh_release_calls[1].artifacts
          = << TempDir \o << "/" >> \o Unwrap(archive).file_name >>

\* C14: a publish without a manifest goes on to validation when the caller
\* gave name, version and type; when one of them is missing it ends with an
\* InvalidArgumentError result, without side effects.
C14_HeadlessPublishNeedsIdentity ==
    IsSome(caller_args) =>
        IF /\ IsSome(Unwrap(caller_args).name)
           /\ IsSome(Unwrap(caller_args).version)
           /\ IsSome(Unwrap(caller_args).type)
        THEN FinalVersionKnown
        ELSE /\ Done
             /\ result.status = "Err"
             /\ result.variant = "InvalidArgumentError"
             /\ NoSideEffects

\* A declared dependency was not found among the installed modules.
DependencyUnresolved == \E i \in 1..Len(dep_found) : ~dep_found[i]

\* C18: a publish with an unresolved dependency does not go on and ends with
\* an error; a publish that ended with Ok without uploading is one whose
\* target platform the options exclude.
C18_NoFailureIgnored ==
    /\ DependencyUnresolved => Done /\ result.status = "Err"
    /\ (Done /\ result.status = "Ok" /\ create_gh_release_calls = << >>) => TargetExcluded

\* ------------------------------------------------------------------ properties of main
Exited == m_pc = "exited"

\* d, or a directory above it, carries the workspace marker in f.
UnderWorkspace(f, d) == \E a \in Dirs : IsSelfOrAncestor(a, d) /\ IsSome(f[a])

AlreadyInWorkspace ==
    Err("InvalidArgumentError", "Directory is already under a workspace")

\* init ran on a directory that was, or was below, a workspace: it failed
\* and changed nothing. Otherwise it made the directory a workspace with an
\* empty registry and changed nothing else, unless the filesystem refused.
InitOutcome ==
    ran = << "init" >> =>
        LET root == Unwrap(current_root)
            r == Unwrap(run_result)
        IN  IF UnderWorkspace(fs_at_start, root)
            THEN r = AlreadyInWorkspace /\ fs = fs_at_start
            ELSE \/ r = Ok("true") /\ fs = [fs_at_start EXCEPT ![root] = Some({ })]
                 \/ r.status = "Err" /\ r.variant = "IOError" /\ fs = fs_at_start

\* The step that runs init on, or below, a directory that an earlier init
\* made a workspace fails and changes nothing.
SecondInitFails ==
    (/\ m_pc = "run"
     /\ commands[command_i] = "init"
     /\ \E a \in initialised : IsSelfOrAncestor(a, Unwrap(current_root)))
    => /\ run_result' = Some(AlreadyInWorkspace)
       /\ fs' = fs

Selected(c) ==
    /\ IsSome(matches)
    /\ Unwrap(matches).subcommand = Some(c)
    /\ Unwrap(matches).workspace \in Dirs

\* C16: every registered command but init needs a workspace; such a command
\* is about to run, or has run, only with the marker at the root; when the
\* marker is absent the process exits with a non-zero status and runs
\* nothing; init runs with or without the marker.
C16_NoRunWithoutWorkspace ==
    /\ \A i \in 1..Len(commands) : needs_workspace(commands[i]) <=> commands[i] # "init"
    /\ (m_pc = "run" /\ commands[command_i] # "init") => IsSome(fs[Unwrap(current_root)])
    /\ \A i \in 1..Len(ran) :
        ran[i] # "init" => IsSome(fs_at_start[Unwrap(current_root)])
    /\ \A i \in 1..Len(commands) :
        (/\ Exited /\ Selected(commands[i]) /\ commands[i] # "init"
         /\ IsNone(fs_at_start[Unwrap(matches).workspace]))
        => ran = << >> /\ IsSome(exit_status) /\ exit_status # Some(0)
    /\ (Exited /\ Selected("init")) => ran = << "init" >>

\* install was asked for at a root without the marker.
C16_Witness ==
    /\ Exited /\ Selected("install")
    /\ IsNone(fs_at_start[Unwrap(matches).workspace])
    /\ ran = << >>
    /\ exit_status = Some(1)
    /\ stderr = << << "No workspace found" >> >>

\* The parsed subcommand is that of a registered command.
Registered ==
    /\ IsSome(matches)
    /\ \E i \in 1..Len(commands) : matched_args(commands[i], Unwrap(matches))

\* C17: a process runs at most one command, the first of commands() that
\* matches; it exits with 0 exactly when that command returned Ok; an error
\* is printed with all its causes before the exit with a non-zero status;
\* without the marker a command needing it, and without a registered command
\* for the subcommand, the process runs nothing and exits with non-zero.
C17_OneCommandAndItsStatus ==
    /\ Len(ran) <= 1
    /\ ran # << >> =>
        \E i \in 1..Len(commands) :
            /\ ran[1] = commands[i]
            /\ matched_args(commands[i], Unwrap(matches))
            /\ \A j \in 1..(i - 1) : ~matched_args(commands[j], Unwrap(matches))
    /\ Exited =>
        /\ IsSome(exit_status)
        /\ exit_status = Some(0) <=>
               (ran # << >> /\ IsSome(run_result) /\ Unwrap(run_result).status = "Ok")
    /\ (Exited /\ IsSome(run_result) /\ Unwrap(run_result).status = "Err") =>
        /\ exit_status # Some(0)
        /\ stderr = << << "Error: ", Unwrap(run_result).msg >> >>
                    \o [i \in 1..Len(Sources(Unwrap(run_result))) |->
                           << "Caused by: ", Sources(Unwrap(run_result))[i] >>]
    /\ (Exited /\ ~Registered) => ran = << >> /\ exit_status # Some(0)
    /\ (Exited /\ IsSome(current_root) /\ ran = << >>) => exit_status # Some(0)

\* A command failed with an error that has a cause: both lines were printed.
C17_Witness ==
    /\ Exited /\ Len(ran) = 1
    /\ IsSome(run_result) /\ Unwrap(run_result).variant = "IOError"
    /\ Len(stderr) = 2
    /\ exit_status = Some(1)

\* ------------------------------------------------------------------ properties of the resolver
\* The request is in range mode, for a token a.b[.c[.d]].
MinorPreciseRangeRequest ==
    /\ IsSome(request)
    /\ ~Unwrap(request).exact
    /\ IsSome(SemVerOf(Unwrap(request).token))
    /\ Len(Unwrap(SemVerOf(Unwrap(request).token))) >= 2

\* Component i of version string x, 0 when absent.
Comp(x, i) ==
    LET v == Unwrap(SemVerOf(x)) IN IF i <= Len(v) THEN v[i] ELSE 0

\* x is at most y, as versions.
VersionLeq(x, y) ==
    \/ \A i \in 1..4 : Comp(x, i) = Comp(y, i)
    \/ \E i \in 1..4 : Comp(x, i) < Comp(y, i) /\ \A j \in 1..(i - 1) : Comp(x, j) = Comp(y, j)

\* token <= x < a.(b+1): x has the token's major and minor and is not below it.
Qualifies(x, token) ==
    /\ Comp(x, 1) = Comp(token, 1)
    /\ Comp(x, 2) = Comp(token, 2)
    /\ VersionLeq(token, x)

\* x is the greatest of the versions of cands that qualify.
GreatestQualifying(x, cands, token) ==
    /\ x \in cands
    /\ Qualifies(x, token)
    /\ \A y \in cands : Qualifies(y, token) => VersionLeq(y, x)

\* C19: in range mode, for a minor-precise token, the resolver returns the
\* greatest installed version x with token <= x < a.(b+1) whenever there is
\* one, without access to a remote; otherwise the greatest such version of
\* the remote, from the remote (to be installed); NotFound when neither has one.
C19_RangePrefersInstalled ==
    (MinorPreciseRangeRequest /\ IsSome(resolution)) =>
        LET r == Unwrap(request)
            got == Unwrap(resolution)
        IN  IF \E x \in r.installed : Qualifies(x, r.token)
            THEN /\ got.status = "Ok"
                 /\ GreatestQualifying(Unwrap(got.version), r.installed, r.token)
                 /\ got.origin = "installed"
                 /\ ~got.remote_accessed
            ELSE IF \E x \in r.available : Qualifies(x, r.token)
            THEN /\ got.status = "Ok"
                 /\ GreatestQualifying(Unwrap(got.version), r.available, r.token)
                 /\ got.origin = "remote"
            ELSE got.status = "Err" /\ got.variant = "NotFound"

\* Installed 1.2.0 and 1.2.5, requested 1.2.1, the remote has 1.2.5 and more:
\* 1.2.5 of the installed ones is returned.
C19_Witness ==
    /\ IsSome(resolution) /\ MinorPreciseRangeRequest
    /\ Unwrap(request).token = Ver("1", "2", "1")
    /\ Unwrap(request).installed = { Ver("1", "2", "0"), Ver("1", "2", "5") }
    /\ Unwrap(request).available = CandidateVersions
    /\ Unwrap(resolution) = Found(Ver("1", "2", "5"), "installed", FALSE)

TripleOf(e) == << e.name, e.release.version, e.release.platform >>

\* The triple of the entry this publish registered was in the index before.
RepublishedTriple ==
    /\ fetch_add_calls # << >>
    /\ \E e \in pre.index :
        TripleOf(e) = << fetch_add_calls[1].name, fetch_add_calls[1].release.version,
                        fetch_add_calls[1].release.platform >>

\* C21: the index never holds two entries of one (name, version, platform);
\* after a successful publish that was not a dry run the entry of the
\* published triple is the one this publish wrote, and every other entry is
\* as it was; a registration of a triple the index already held fails only
\* when the backend refused the write that was run, never for the triple.
C21_OneEntryPerTriple ==
    /\ \A e1, e2 \in index : TripleOf(e1) = TripleOf(e2) => e1 = e2
    /\ (Done /\ ~dry_run /\ result = Ok("true")) =>
        LET call == fetch_add_calls[1]
            written == [name |-> call.name, release |-> call.release, commit |-> call.commit]
        IN  /\ written \in index
            /\ \A e \in index : TripleOf(e) = TripleOf(written) => e = written
            /\ \A e \in pre.index : TripleOf(e) # TripleOf(written) => e \in index
            /\ \A e \in index : e # written => e \in pre.index
    /\ (RepublishedTriple /\ ~dry_run /\ ~fetch_add_calls[1].ok) =>
        \E i \in 1..Len(run_if_not_calls) :
            run_if_not_calls[i].cmd = "git push" /\ run_if_not_calls[i].executed

\* A successful publish of the triple the index held: the old entry is gone
\* and the new one is the only entry of the triple.
C21_Witness ==
    /\ Done /\ ~dry_run /\ result = Ok("true")
    /\ RepublishedTriple
    /\ pre.index = SeedIndex
    /\ Cardinality(index) = 1
    /\ index # pre.index

\* ------------------------------------------------------------------ properties of the search path
RECURSIVE SplitColons(_, _)
\* The entries of a ':'-separated list, cur being the entry read so far.
SplitColons(s, cur) ==
    IF s = << >> THEN << cur >>
    ELSE IF Head(s) = ":" THEN << cur >> \o SplitColons(Tail(s), << >>)
    ELSE SplitColons(Tail(s), Append(cur, Head(s)))

\* An entry without its trailing separator: the same directory.
StripSep(e) == IF Len(e) > 1 /\ e[Len(e)] = "/" THEN SubSeq(e, 1, Len(e) - 1) ELSE e

\* The library was loaded on Linux or macOS with at least one additional
\* search path.
LoadedWithSearchPaths ==
    /\ IsSome(env_at_load)
    /\ host_os # "windows"
    /\ additional_search_paths # << >>

\* C22: on Linux and macOS, when Library::new runs, the entries of the search
\* variable are the additional search paths (each one an entry of its own, in
\* any order, a trailing separator allowed), followed by the entries of the
\* variable's original value (nothing, or one empty entry, when it was unset).
C22_SearchVarListsEveryPath ==
    (IsSome(env_at_load) /\ host_os # "windows") =>
        LET var == SearchVar(host_os)
            entries == SplitColons(OrEmpty(Unwrap(env_at_load).env[var]), << >>)
            k == Len(additional_search_paths)
            original == pre.env[var]
            rest == SubSeq(entries, k + 1, Len(entries))
        IN  /\ Len(entries) >= k
            /\ { StripSep(entries[i]) : i \in 1..k }
                   = { additional_search_paths[i] : i \in 1..k }
            /\ IF IsSome(original) THEN rest = SplitColons(Unwrap(original), << >>)
               ELSE rest \in { << >>, << << >> >> }

\* The variable was set, and Library::new ran with the variable at its
\* original value although there were additional search paths.
SearchPathsDropped ==
    /\ LoadedWithSearchPaths
    /\ IsSome(pre.env[SearchVar(host_os)])
    /\ Unwrap(env_at_load).env = pre.env

\* ------------------------------------------------------------------ properties of ask
\* The line, trimmed and lower-cased, is "y", "n" or empty.
ValidAnswer(line) == ToLowercase(Trim(line)) \in { << "y" >>, << "n" >>, << >> }

\* i is the first line of the input that is a valid answer.
FirstValid(i) ==
    /\ i \in 1..Len(ask_input)
    /\ ValidAnswer(ask_input[i])
    /\ \A j \in 1..(i - 1) : ~ValidAnswer(ask_input[j])

\* What ask is to return for a valid answer.
AnswerOf(line) ==
    IF ToLowercase(Trim(line)) = << "y" >> THEN TRUE
    ELSE IF ToLowercase(Trim(line)) = << "n" >> THEN FALSE
    ELSE do_default

\* C23: once ask has read the first line that, trimmed and lower-cased, is
\* "y", "n" or empty, it has returned, at that line and with that line's
\* answer (do_default for the empty line), however many invalid lines came
\* before it; and it does not return on a line that is not valid.
C23_AskReturnsAtFirstValidLine ==
    /\ \A i \in 1..Len(ask_input) :
        (FirstValid(i) /\ lines_read >= i) =>
            /\ ask_pc = "returned"
            /\ lines_read = i
            /\ ask_result = Some(AnswerOf(ask_input[i]))
    /\ (ask_pc = "returned" /\ lines_read >= 1) => FirstValid(lines_read)

\* ask has read an invalid line and then a "y", and is still asking.
AskStuckAfterInvalid ==
    /\ ask_pc = "loop"
    /\ lines_read = 2
    /\ ~ValidAnswer(ask_input[1])
    /\ ask_input[2] = << "y", "\n" >>

\* ------------------------------------------------------------------ properties of check_file_contents_same
\* C24: when check_file_contents_same has returned, it returned true if and
\* only if the two files hold the same bytes, whatever their lengths and
\* however the reads split them into chunks.
C24_SameIffIdentical ==
    cmp_pc = "returned" => cmp_result = Some(file1 = file2)

\* Two identical files, not empty, were reported as different.
IdenticalReportedDifferent ==
    /\ cmp_pc = "returned"
    /\ file1 = file2 /\ file1 # << >>
    /\ cmp_result = Some(FALSE)

\* Files reported as the same are identical: the error is on one side only.
SameImpliesIdentical ==
    cmp_result = Some(TRUE) => file1 = file2

\* ------------------------------------------------------------------ properties of download_and_extract
\* The path is the target directory or lies below it.
InsideTarget(at) ==
    LET target == << << "ws" >>, << "mod" >> >>
    IN  Len(at) >= Len(target) /\ SubSeq(at, 1, Len(target)) = target

\* C25: every path download_and_extract created or wrote is the target
\* directory or lies inside it, and what existed elsewhere is as it was.
C25_ExtractsInsideTarget ==
    /\ \A at \in touched : InsideTarget(at)
    /\ \A n \in tree \ tree_at_start : InsideTarget(n.path)

\* An entry with an absolute name overwrote the file of that name.
ExtractedOverExistingFile ==
    /\ ex_result = Ok("()")
    /\ << << "etc" >>, << "p" >> >> \in touched

\* An entry with a ".." component was created next to the target.
ExtractedBesideTarget ==
    /\ ex_result = Ok("()")
    /\ [path |-> << << "ws" >>, << "e" >> >>, kind |-> "file"] \in tree

====
